---- MODULE Spec2Model ----
(***************************************************************************)
(* State-machine model of the shellflow front end's terminal bookkeeping:  *)
(*   - the per-entity tab store (hook useDrawerTabs),                      *)
(*   - the PTY hook (usePty) with the backend event bus it listens on,     *)
(*   - the debounced container resize of the Terminal component,           *)
(*   - the focus-scoped terminal registry (terminalRegistry.ts),           *)
(*   - the thinking, notification and cwd signal routing of MainPane,      *)
(*   - the cyclic tab navigation of the session-tab store,                 *)
(*   - the worktree and drawer bookkeeping of App, with its async delete,  *)
(*   - the scratch terminal list (useScratchTerminals).                    *)
(* Each part has its own specification over the shared variable tuple;     *)
(* the variables of the other parts stay at their initial values.          *)
(***************************************************************************)
EXTENDS Integers, Sequences, FiniteSets, TLC

\* ------------------------------------------------------------------------
\* Bounds of the model
\* ------------------------------------------------------------------------

\* longest tab list an entity is given
MaxTabs == 3
\* largest value a label counter is driven to
MaxCounter == 3

\* number of PTYs the backend is asked to spawn
MaxPtys == 2

\* number of resize bursts the container goes through
MaxBursts == 2

\* highest counter value under the logged tab-store calls
MaxLoggedCounter == 1

\* highest drawer tab counter a worktree reaches
MaxDrawerCounter == 2
\* useScratchTerminals: largest counter taken and longest list of scratch terminals
MaxScratchCounter == 3
MaxScratch == 3

\* the delay given to debounce() by the Terminal component, in ms
DebounceMs == 100

\* entity (session) ids and the pool tab ids are minted from
Entities == {"e1", "e2"}
TabIds == {"t1", "t2", "t3"}
\* usePty instances (one per terminal component) and the ids the backend hands out
Hooks == {"h1", "h2"}
PtyName == <<"p1", "p2", "p3", "p4">>
PtyIds == {PtyName[i] : i \in 1..Len(PtyName)}
\* tab labels: the one a tab is created with and one a terminal title sets
Labels == {"Terminal", "zsh"}
\* terminal geometries fitAddon.fit() can measure
Sizes == {"80x24", "120x40"}
\* terminal components that register with the terminal registry
Terms == {"A", "B", "C"}
\* App: the worktrees of the sidebar
Worktrees == {"w1", "w2"}
\* App: the projects of the sidebar and the worktrees of each
Projects == {"p1", "p2"}
ProjectWorktrees == [p \in Projects |-> IF p = "p1" THEN {"w1"} ELSE {"w2"}]
\* MainPane: the sessions and the tabs of each
Sessions == {"s1", "s2", "s3"}
SessionTabs ==
  [s \in Sessions |-> IF s = "s1" THEN {"a1", "a2"}
                      ELSE IF s = "s2" THEN {"b1", "b2"} ELSE {"c1"}]
SessionKind ==
  [s \in Sessions |-> IF s = "s1" THEN "worktree"
                      ELSE IF s = "s2" THEN "scratch" ELSE "project"]

\* JavaScript null / undefined
Null == "null"

\* ------------------------------------------------------------------------
\* Variables
\* ------------------------------------------------------------------------

VARIABLES
  \* useDrawerTabs: React state (value after every queued updater has run)
  drawerTabs,          \* Map entityId -> DrawerTab[]   (function, DOMAIN = keys)
  drawerActiveTabIds,  \* Map entityId -> tabId
  drawerTabCounters,   \* Map entityId -> number
  \* useDrawerTabs: refs, assigned on every render
  tabsRef,
  tabCountersRef,
  \* values handed back to the callers of the store
  removeRet,           \* last value returned by removeTab
  counterRet,          \* per entity, the value its latest incrementCounter returned (0: none yet)
  \* usePty, per hook instance
  ptyId,               \* useState ptyId
  unlistenRef,         \* unlistenRef.current: the listener its call would remove, or null
  invoking,            \* spawn calls awaiting invoke(spawn_main | spawn_terminal)
  listening,           \* spawn calls awaiting listen('pty-output'): pairs <<hook, id>>
  killing,             \* the ptyId of the kill call awaiting invoke('pty_kill'), or null
  spawnOutcome,        \* how the hook's latest finished spawn call ended
  \* the event bus and the backend
  listeners,           \* live pty-output listeners: pairs <<hook, id it filters on>>
  nextPty,             \* index of the next id the backend allocates
  proc,                \* per pty id: "none", "running", "killed", "exited"
  inflight,            \* pty ids with an output event emitted and not yet dispatched
  \* what reached each terminal
  spawned,             \* per hook, the ids the backend returned to its spawn calls
  delivered,           \* per hook, the pty ids whose output reached its onOutput
  exitSeen,            \* per hook, the pty ids whose exit it reacted to (onClose)
  killRequested,       \* pty ids for which kill has been called
  lateOutput,          \* pty ids whose output reached a subscriber after kill was called
  \* Terminal component: debounced resize
  rzMounted,           \* the component is mounted (terminalRef / fitAddonRef are set)
  rzPtyId,             \* usePty's ptyId as the component sees it
  rzSize,              \* the geometry fitAddon.fit() measures now
  rzArmed,             \* debounce: a timeout is pending
  rzTimer,             \* debounce: ms until the pending timeout fires
  rzCalls,             \* the sizes passed to invoke('pty_resize'), in order
  rzOpen,              \* a burst of notifications is under way
  rzSince,             \* ms since the last notification of the burst
  rzBurstLen,          \* notifications in the burst so far (counted up to 3)
  rzFinal,             \* per finished burst, the size measured at its last notification
  rzCoalesced,         \* length of the longest finished burst (counted up to 3)
  \* terminal registry
  activeTerminal,      \* module variable activeTerminal
  selection,           \* the terminals that hold a text selection
  regOp,               \* the registry call made last
  copyTarget,          \* the terminal whose copy() the last copyFromActiveTerminal invoked
  pasteTarget,         \* the terminal whose paste() the last pasteToActiveTerminal invoked
  copyResult,          \* what the last copyFromActiveTerminal returned
  lateUnregs,          \* terminals whose unregister ran while another one was registered
  \* MainPane
  mpActiveSession,     \* activeSessionId
  mpActiveTab,         \* per session, its active tab id
  mpLastActive,        \* per session, its last-active tab id
  mpNewApi,            \* the onThinkingChange prop is given
  mpSignal,            \* the thinking signal being routed and where it went
  mpProps,             \* which of the onNotification / onCwdChange props are given
  mpEvent,             \* the notification or cwd signal being routed and where it went
  \* App: per-worktree drawer state
  openWorktreeIds,     \* openWorktreeIds
  activeWorktreeId,    \* activeWorktreeId
  drawerStates,        \* Map worktree id -> DrawerState
  minted,              \* every drawer tab id minted so far
  reminted,            \* the drawer tab ids minted more than once
  \* tab store, call log
  lastOp,              \* the store call made last: its name, entity, case and arguments
  \* usePty: write, resize and kill calls
  ioPending,           \* per hook, the write or resize whose invoke is awaited
  ioLast,              \* per hook, the write, resize or kill call that finished last
  sessionTabs,         \* useSessionTabs: per session, the ids of its tabs in display order
  sessionActiveTabIds, \* useSessionTabs: per session, the active tab id or null
  navOp,               \* useSessionTabs: the navigation call made last and the state it saw
  unmounted,           \* usePty: the hook instances whose component has unmounted
  pendingDelete,       \* App: the confirmDeleteWorktree call awaiting deleteWorktree, with what its closure captured
  scratchTerminals,    \* useScratchTerminals: the ids of the scratch terminals, in list order
  scratchTerminalCounter, \* useScratchTerminals: the counter state
  scratchCaptured,     \* useScratchTerminals: the counter addScratchTerminal's closure holds (last render)
  scratchMinted,       \* useScratchTerminals: every scratch id made so far
  scratchReused        \* useScratchTerminals: the scratch ids made more than once

storeVars == <<drawerTabs, drawerActiveTabIds, drawerTabCounters, tabsRef,
               tabCountersRef, removeRet, counterRet>>

ptyVars == <<ptyId, unlistenRef, invoking, listening, killing, spawnOutcome, listeners,
             nextPty, proc, inflight, spawned, delivered, exitSeen, killRequested, lateOutput>>

rzVars == <<rzMounted, rzPtyId, rzSize, rzArmed, rzTimer, rzCalls, rzOpen, rzSince,
            rzBurstLen, rzFinal, rzCoalesced>>

regVars == <<activeTerminal, selection, regOp, copyTarget, pasteTarget, copyResult,
             lateUnregs>>

mpVars == <<mpActiveSession, mpActiveTab, mpLastActive, mpNewApi, mpSignal, mpProps, mpEvent>>

appVars == <<openWorktreeIds, activeWorktreeId, drawerStates, minted, reminted>>

opVars == <<lastOp>>

ioVars == <<ioPending, ioLast>>

navVars == <<sessionTabs, sessionActiveTabIds, navOp>>

lifeVars == <<unmounted>>

delVars == <<pendingDelete>>

scVars == <<scratchTerminals, scratchTerminalCounter, scratchCaptured, scratchMinted, scratchReused>>

vars == <<storeVars, ptyVars, rzVars, regVars, mpVars, appVars, opVars, ioVars, navVars, lifeVars, delVars, scVars>>

\* ------------------------------------------------------------------------
\* JavaScript Map and array helpers
\* ------------------------------------------------------------------------

EmptyMap == [x \in {} |-> Null]

MapSet(m, k, v) == [x \in (DOMAIN m) \cup {k} |-> IF x = k THEN v ELSE m[x]]

MapDelete(m, k) == [x \in (DOMAIN m) \ {k} |-> m[x]]

MapHas(m, k) == k \in DOMAIN m

\* prev.get(entityId) ?? []
TabsOrEmpty(m, e) == IF MapHas(m, e) THEN m[e] ELSE << >>

\* prev.get(entityId) ?? 0
CounterOrZero(m, e) == IF MapHas(m, e) THEN m[e] ELSE 0

\* currentTabs.filter(t => t.id !== tabId)
FilterOut(tabs, tabId) == SelectSeq(tabs, LAMBDA t : t.id # tabId)

\* the ids of a tab list, as a set
IdsOf(tabs) == {tabs[i].id : i \in 1..Len(tabs)}

\* position (1-based) of a tab id in a list, 0 when absent
IndexOf(tabs, tabId) ==
  IF tabId \in IdsOf(tabs)
    THEN CHOOSE i \in 1..Len(tabs) : tabs[i].id = tabId /\ \A j \in 1..(i-1) : tabs[j].id # tabId
    ELSE 0

\* an exchange of the two positions
ArraySwap(tabs, from, to) ==
  [i \in 1..Len(tabs) |->
     IF i = from THEN tabs[to] ELSE IF i = to THEN tabs[from] ELSE tabs[i]]

\* a move whose insertion index is not corrected for the removal
ArrayMoveOffByOne(tabs, from, to) ==
  LET without == [i \in 1..(Len(tabs) - 1) |-> IF i < from THEN tabs[i] ELSE tabs[i + 1]]
      at == IF to > from THEN to - 1 ELSE to
  IN  [i \in 1..Len(tabs) |->
         IF i < at THEN without[i]
         ELSE IF i = at THEN tabs[from]
         ELSE without[i - 1]]

\* @dnd-kit/sortable arrayMove(array, from, to), indices 1-based here:
\* newArray.splice(to, 0, newArray.splice(from, 1)[0])
ArrayMove(tabs, from, to) ==
  LET without == [i \in 1..(Len(tabs) - 1) |-> IF i < from THEN tabs[i] ELSE tabs[i + 1]]
  IN  [i \in 1..Len(tabs) |->
         IF i < to THEN without[i]
         ELSE IF i = to THEN tabs[from]
         ELSE without[i - 1]]

\* a DrawerTab as addTab's callers build it
MkTab(id) == [id |-> id, label |-> "Terminal", type |-> "terminal"]

\* ------------------------------------------------------------------------
\* useDrawerTabs: getters
\* ------------------------------------------------------------------------

getTabsForEntity(e) == TabsOrEmpty(drawerTabs, e)

getActiveTabIdForEntity(e) ==
  IF MapHas(drawerActiveTabIds, e) THEN drawerActiveTabIds[e] ELSE Null

getCounterForEntity(e) == CounterOrZero(drawerTabCounters, e)

\* every tab id currently in some entity's list
AllTabIds == UNION {IdsOf(getTabsForEntity(e)) : e \in Entities}

\* ------------------------------------------------------------------------
\* useDrawerTabs: operations
\* ------------------------------------------------------------------------

\* removeTab, the id computed from the ref: the last tab that remains
RemoveTabNewActive(snapshot, e, tabId) ==
  LET remaining == FilterOut(TabsOrEmpty(snapshot, e), tabId)
  IN  IF Len(remaining) > 0 THEN remaining[Len(remaining)].id ELSE Null

\* an updater that replaces the active id whichever tab is removed
RemoveTabActiveIdsAlways(prev, e, tabId, newActiveTabId) ==
  IF tabId = tabId /\ newActiveTabId # Null
    THEN MapSet(prev, e, newActiveTabId)
    ELSE MapDelete(prev, e)

\* removeTab, the updater of drawerActiveTabIds
RemoveTabActiveIds(prev, e, tabId, newActiveTabId) ==
  IF MapHas(prev, e) /\ prev[e] = tabId
    THEN IF newActiveTabId # Null
           THEN MapSet(prev, e, newActiveTabId)
           ELSE MapDelete(prev, e)
    ELSE prev

\* setActiveTab, the updater of drawerActiveTabIds
SetActiveTabIds(prev, e, tabId) ==
  IF MapHas(prev, e) /\ prev[e] = tabId THEN prev ELSE MapSet(prev, e, tabId)

\* an updater that drops every entity's counter
ClearCountersAll(prev, e) == IF e \in Entities THEN EmptyMap ELSE prev

\* clearEntityTabs, the updater of drawerTabCounters
ClearCounters(prev, e) == IF MapHas(prev, e) THEN MapDelete(prev, e) ELSE prev

\* an addTab that puts the tab in front
addTabPrepend(e, tab) ==
  /\ tab.id \notin AllTabIds
  /\ Len(getTabsForEntity(e)) < MaxTabs
  /\ drawerTabs' = MapSet(drawerTabs, e, <<tab>> \o TabsOrEmpty(drawerTabs, e))
  /\ drawerActiveTabIds' = MapSet(drawerActiveTabIds, e, tab.id)
  /\ UNCHANGED <<drawerTabCounters, removeRet, counterRet>>

addTab(e, tab) ==
  /\ tab.id \notin AllTabIds
  /\ Len(getTabsForEntity(e)) < MaxTabs
  /\ drawerTabs' = MapSet(drawerTabs, e, Append(TabsOrEmpty(drawerTabs, e), tab))
  /\ drawerActiveTabIds' = MapSet(drawerActiveTabIds, e, tab.id)
  /\ UNCHANGED <<drawerTabCounters, removeRet, counterRet>>

removeTab(e, tabId) ==
  LET newActiveTabId == RemoveTabNewActive(tabsRef, e, tabId)
  IN  /\ drawerTabs' = MapSet(drawerTabs, e, FilterOut(TabsOrEmpty(drawerTabs, e), tabId))
      /\ drawerActiveTabIds' = RemoveTabActiveIds(drawerActiveTabIds, e, tabId, newActiveTabId)
      /\ removeRet' = newActiveTabId
      /\ UNCHANGED <<drawerTabCounters, counterRet>>

setActiveTab(e, tabId) ==
  /\ drawerActiveTabIds' = SetActiveTabIds(drawerActiveTabIds, e, tabId)
  /\ UNCHANGED <<drawerTabs, drawerTabCounters, removeRet, counterRet>>

reorderTabs(e, oldIndex, newIndex) ==
  /\ MapHas(drawerTabs, e)
  /\ oldIndex \in 1..Len(drawerTabs[e])
  /\ newIndex \in 1..Len(drawerTabs[e])
  /\ drawerTabs' = MapSet(drawerTabs, e, ArrayMove(drawerTabs[e], oldIndex, newIndex))
  /\ UNCHANGED <<drawerActiveTabIds, drawerTabCounters, removeRet, counterRet>>

incrementCounter(e) ==
  LET newCounter == CounterOrZero(tabCountersRef, e) + 1
  IN  /\ CounterOrZero(drawerTabCounters, e) < MaxCounter
      /\ drawerTabCounters' = MapSet(drawerTabCounters, e, CounterOrZero(drawerTabCounters, e) + 1)
      /\ counterRet' = [counterRet EXCEPT ![e] = newCounter]
      /\ UNCHANGED <<drawerTabs, drawerActiveTabIds, removeRet>>

clearEntityTabs(e) ==
  /\ drawerTabs' = IF MapHas(drawerTabs, e) THEN MapDelete(drawerTabs, e) ELSE drawerTabs
  /\ drawerActiveTabIds' =
       IF MapHas(drawerActiveTabIds, e) THEN MapDelete(drawerActiveTabIds, e)
       ELSE drawerActiveTabIds
  /\ drawerTabCounters' = ClearCounters(drawerTabCounters, e)
  /\ UNCHANGED <<removeRet, counterRet>>

\* an updater that builds a new Map on every call
UpdateTabLabelFreshAlways(prev, e, tabId, label) ==
  prev = prev /\ e = e /\ tabId = tabId /\ label = label

\* updateTabLabel: whether the updater returns a new Map (it returns prev for an
\* unknown entity, an unknown tab and an unchanged label)
UpdateTabLabelFresh(prev, e, tabId, label) ==
  /\ MapHas(prev, e)
  /\ IndexOf(prev[e], tabId) # 0
  /\ prev[e][IndexOf(prev[e], tabId)].label # label

\* a relabelling that reaches every tab of the entity
UpdateTabLabelTabsAll(prev, e, tabId, label) ==
  IF tabId = tabId
    THEN MapSet(prev, e, [i \in 1..Len(TabsOrEmpty(prev, e)) |->
                            [TabsOrEmpty(prev, e)[i] EXCEPT !.label = label]])
    ELSE prev

\* updateTabLabel: the new Map, updatedTabs[tabIndex] = { ...tabs[tabIndex], label }
UpdateTabLabelTabs(prev, e, tabId, label) ==
  LET tabs == TabsOrEmpty(prev, e)
      tabIndex == IndexOf(tabs, tabId)
  IN  MapSet(prev, e, [i \in 1..Len(tabs) |->
                         IF i = tabIndex THEN [tabs[i] EXCEPT !.label = label]
                         ELSE tabs[i]])

updateTabLabel(e, tabId, label) ==
  /\ drawerTabs' = IF UpdateTabLabelFresh(drawerTabs, e, tabId, label)
                     THEN UpdateTabLabelTabs(drawerTabs, e, tabId, label)
                     ELSE drawerTabs
  /\ UNCHANGED <<drawerActiveTabIds, drawerTabCounters, removeRet, counterRet>>

\* a render of the component that owns the hook: both refs take the current state
\* (tabsRef.current = drawerTabs; tabCountersRef.current = drawerTabCounters)
RenderAfter ==
  /\ tabsRef' = drawerTabs'
  /\ tabCountersRef' = drawerTabCounters'

\* the refs as a batch of calls sees them: no render has run since the last call
NoRender == UNCHANGED <<tabsRef, tabCountersRef>>

\* a render after a batch of calls: the refs catch up with the state
Render ==
  /\ <<tabsRef, tabCountersRef>> # <<drawerTabs, drawerTabCounters>>
  /\ tabsRef' = drawerTabs
  /\ tabCountersRef' = drawerTabCounters
  /\ UNCHANGED <<drawerTabs, drawerActiveTabIds, drawerTabCounters, removeRet, counterRet>>

InitStore ==
  /\ drawerTabs = EmptyMap
  /\ drawerActiveTabIds = EmptyMap
  /\ drawerTabCounters = EmptyMap
  /\ tabsRef = EmptyMap
  /\ tabCountersRef = EmptyMap
  /\ removeRet = Null
  /\ counterRet = [e \in Entities |-> 0]

\* ------------------------------------------------------------------------
\* usePty: one hook instance per terminal, the Tauri event bus, the backend
\* ------------------------------------------------------------------------

\* a listener that does not look at the event's pty_id
OutputFilterNone(id, q) == id = id /\ q = q

\* the listener's test: event.payload.pty_id === id
OutputFilter(id, q) == q = id

\* the exit listener's test of the terminal component: event.payload.ptyId === ptyId
ExitFilter(own, q) == own # Null /\ q = own

\* a catch block that only logs, as those of write, resize and kill do
SpawnCatchSwallowed == "swallowed"

\* spawn's catch block: console.error, then throw error
SpawnCatch == "thrown"

\* unlistenRef.current(): the listener is taken off the bus; a repeated call does nothing
Unlisten(ls, h, ref) == IF ref = Null THEN ls ELSE ls \ {<<h, ref>>}

InitPty ==
  /\ ptyId = [h \in Hooks |-> Null]
  /\ unlistenRef = [h \in Hooks |-> Null]
  /\ invoking = [h \in Hooks |-> 0]
  /\ listening = {}
  /\ killing = [h \in Hooks |-> Null]
  /\ spawnOutcome = [h \in Hooks |-> "none"]
  /\ listeners = {}
  /\ nextPty = 1
  /\ proc = [q \in PtyIds |-> "none"]
  /\ inflight = {}
  /\ spawned = [h \in Hooks |-> {}]
  /\ delivered = [h \in Hooks |-> {}]
  /\ exitSeen = [h \in Hooks |-> {}]
  /\ killRequested = {}
  /\ lateOutput = {}

\* spawn calls, over all hooks, whose invoke has not been answered yet
PendingInvokes == Cardinality({pr \in Hooks \X (1..MaxPtys) : pr[2] <= invoking[pr[1]]})

\* spawn(workspaceId, type, cols, rows) is called: it awaits invoke(command, ...)
SpawnCall(h) ==
  /\ nextPty + PendingInvokes <= MaxPtys
  /\ invoking' = [invoking EXCEPT ![h] = @ + 1]
  /\ UNCHANGED <<ptyId, unlistenRef, listening, killing, spawnOutcome, listeners, nextPty,
                 proc, inflight, spawned, delivered, exitSeen, killRequested, lateOutput>>

\* invoke resolves with a fresh id: setPtyId(id), the previous listener is removed,
\* listen('pty-output', ...) is called and awaited
SpawnInvokeResolved(h) ==
  LET id == PtyName[nextPty]
  IN  /\ invoking[h] > 0
      /\ invoking' = [invoking EXCEPT ![h] = @ - 1]
      /\ nextPty' = nextPty + 1
      /\ proc' = [proc EXCEPT ![id] = "running"]
      /\ spawned' = [spawned EXCEPT ![h] = @ \cup {id}]
      /\ ptyId' = [ptyId EXCEPT ![h] = id]
      /\ listeners' = Unlisten(listeners, h, unlistenRef[h])
      /\ listening' = listening \cup {<<h, id>>}
      /\ UNCHANGED <<unlistenRef, killing, spawnOutcome, inflight, delivered, exitSeen,
                     killRequested, lateOutput>>

\* invoke rejects (bad directory, command cannot be started): no id is allocated;
\* the catch block logs and rethrows
SpawnInvokeRejected(h) ==
  /\ invoking[h] > 0
  /\ invoking' = [invoking EXCEPT ![h] = @ - 1]
  /\ spawnOutcome' = [spawnOutcome EXCEPT ![h] = SpawnCatch]
  /\ UNCHANGED <<ptyId, unlistenRef, listening, killing, listeners, nextPty, proc, inflight,
                 spawned, delivered, exitSeen, killRequested, lateOutput>>

\* listen resolves: the listener is on the bus, unlistenRef.current is its remover,
\* spawn returns id
SpawnListenResolved(h, id) ==
  /\ <<h, id>> \in listening
  /\ listening' = listening \ {<<h, id>>}
  /\ listeners' = listeners \cup {<<h, id>>}
  /\ unlistenRef' = [unlistenRef EXCEPT ![h] = id]
  /\ spawnOutcome' = [spawnOutcome EXCEPT ![h] = "returned"]
  /\ UNCHANGED <<ptyId, invoking, killing, nextPty, proc, inflight, spawned, delivered,
                 exitSeen, killRequested, lateOutput>>

\* kill() is called with a ptyId known: it awaits invoke('pty_kill', { ptyId })
KillCall(h) ==
  /\ ptyId[h] # Null
  /\ killing[h] = Null
  /\ killing' = [killing EXCEPT ![h] = ptyId[h]]
  /\ killRequested' = killRequested \cup {ptyId[h]}
  /\ UNCHANGED <<ptyId, unlistenRef, invoking, listening, spawnOutcome, listeners, nextPty,
                 proc, inflight, spawned, delivered, exitSeen, lateOutput>>

\* pty_kill resolves: the backend has stopped the process; setPtyId(null), the listener
\* is removed and unlistenRef.current cleared
KillResolved(h) ==
  /\ killing[h] # Null
  /\ proc' = [proc EXCEPT ![killing[h]] = IF @ = "running" THEN "killed" ELSE @]
  /\ ptyId' = [ptyId EXCEPT ![h] = Null]
  /\ listeners' = Unlisten(listeners, h, unlistenRef[h])
  /\ unlistenRef' = [unlistenRef EXCEPT ![h] = Null]
  /\ killing' = [killing EXCEPT ![h] = Null]
  /\ UNCHANGED <<invoking, listening, spawnOutcome, nextPty, inflight, spawned, delivered,
                 exitSeen, killRequested, lateOutput>>

\* pty_kill rejects: the catch block logs; nothing else is done
KillRejected(h) ==
  /\ killing[h] # Null
  /\ killing' = [killing EXCEPT ![h] = Null]
  /\ UNCHANGED <<ptyId, unlistenRef, invoking, listening, spawnOutcome, listeners, nextPty,
                 proc, inflight, spawned, delivered, exitSeen, killRequested, lateOutput>>

InitLife == unmounted = {}

\* the component unmounts: the effect cleanup calls unlistenRef.current, if set;
\* awaits of spawn and kill that are still pending go on afterwards
Unmount(h) ==
  /\ h \notin unmounted
  /\ unmounted' = unmounted \cup {h}
  /\ listeners' = Unlisten(listeners, h, unlistenRef[h])
  /\ UNCHANGED <<ptyId, unlistenRef, invoking, listening, killing, spawnOutcome, nextPty,
                 proc, inflight, spawned, delivered, exitSeen, killRequested, lateOutput>>

\* the live pty-output listeners of a hook instance
ListenersOf(h) == {pr \in listeners : pr[1] = h}

\* the id the hook's latest answered spawn got (ids are handed out in PtyName order)
LastSpawned(h) ==
  IF spawned[h] = {} THEN Null
  ELSE PtyName[CHOOSE i \in 1..Len(PtyName) :
                 /\ PtyName[i] \in spawned[h]
                 /\ \A j \in (i+1)..Len(PtyName) : PtyName[j] \notin spawned[h]]

\* the read loop of a running PTY emits a pty-output event
EmitOutput(q) ==
  /\ proc[q] = "running"
  /\ q \notin inflight
  /\ inflight' = inflight \cup {q}
  /\ UNCHANGED <<ptyId, unlistenRef, invoking, listening, killing, spawnOutcome, listeners,
                 nextPty, proc, spawned, delivered, exitSeen, killRequested, lateOutput>>

\* the hooks whose live listeners let the event for q through
Receivers(q) == {h \in Hooks : \E pr \in listeners : pr[1] = h /\ OutputFilter(pr[2], q)}

\* the bus dispatches the event to every live listener; those whose filter lets it
\* through call onOutputRef.current(data)
DispatchOutput(q) ==
  /\ q \in inflight
  /\ inflight' = inflight \ {q}
  /\ delivered' = [h \in Hooks |-> IF h \in Receivers(q) THEN delivered[h] \cup {q}
                                   ELSE delivered[h]]
  /\ lateOutput' = IF q \in killRequested /\ Receivers(q) # {} THEN lateOutput \cup {q}
                   ELSE lateOutput
  /\ UNCHANGED <<ptyId, unlistenRef, invoking, listening, killing, spawnOutcome, listeners,
                 nextPty, proc, spawned, exitSeen, killRequested>>

\* the process ends (by itself or after a kill): one pty-exit event, handled by the
\* terminal whose own ptyId it carries
ProcessExit(q) ==
  /\ proc[q] \in {"running", "killed"}
  /\ proc' = [proc EXCEPT ![q] = "exited"]
  /\ exitSeen' = [h \in Hooks |-> IF ExitFilter(ptyId[h], q) THEN exitSeen[h] \cup {q}
                                  ELSE exitSeen[h]]
  /\ UNCHANGED <<ptyId, unlistenRef, invoking, listening, killing, spawnOutcome, listeners,
                 nextPty, inflight, spawned, delivered, killRequested, lateOutput>>

\* ------------------------------------------------------------------------
\* Terminal component: debounced container resize
\* ------------------------------------------------------------------------

InitResize ==
  /\ rzMounted = TRUE
  /\ rzPtyId = Null
  /\ rzSize \in Sizes
  /\ rzArmed = FALSE
  /\ rzTimer = 0
  /\ rzCalls = <<>>
  /\ rzOpen = FALSE
  /\ rzSince = 0
  /\ rzBurstLen = 0
  /\ rzFinal = <<>>
  /\ rzCoalesced = 0

\* a debounce that leaves a pending timeout running instead of restarting it
DebounceArmKeep(armed, left) == IF armed THEN left ELSE DebounceMs

\* debounce(): clearTimeout(timeout); timeout = setTimeout(fn, ms).  The time left on
\* the timeout after the call, given whether one was pending and how long it had left.
DebounceArm(armed, left) == DebounceMs

\* the ResizeObserver effect: an observer is attached while the component is mounted
\* and a ptyId is known
ObserverAttached == rzMounted /\ rzPtyId # Null

\* usePty.resize(cols, rows): the sizes sent to pty_resize after the call
resize(calls, id, size) == IF id = Null THEN calls ELSE Append(calls, size)

\* the debounced function: fit and resize, unless the terminal is gone or no ptyId
\* is known
DebouncedResizeBody(calls) ==
  IF ~rzMounted \/ rzPtyId = Null THEN calls ELSE resize(calls, rzPtyId, rzSize)

\* initPty: the spawn resolved and the component rendered with the new ptyId
RzPtyReady ==
  /\ rzMounted /\ rzPtyId = Null
  /\ rzPtyId' = "p1"
  /\ UNCHANGED <<rzMounted, rzSize, rzArmed, rzTimer, rzCalls, rzOpen, rzSince,
                 rzBurstLen, rzFinal, rzCoalesced>>

\* the container changes size while no observer is attached: nobody is notified
RzUnobservedResize(s) ==
  /\ rzMounted /\ ~ObserverAttached
  /\ s # rzSize
  /\ rzSize' = s
  /\ UNCHANGED <<rzMounted, rzPtyId, rzArmed, rzTimer, rzCalls, rzOpen, rzSince,
                 rzBurstLen, rzFinal, rzCoalesced>>

\* a container-resize notification: the ResizeObserver callback calls debouncedResize()
RzNotify(s) ==
  /\ ObserverAttached
  /\ rzOpen \/ Len(rzFinal) < MaxBursts
  /\ rzSize' = s
  /\ rzTimer' = DebounceArm(rzArmed, rzTimer)
  /\ rzArmed' = TRUE
  /\ rzOpen' = TRUE
  /\ rzSince' = 0
  /\ rzBurstLen' = IF ~rzOpen THEN 1 ELSE IF rzBurstLen < 3 THEN rzBurstLen + 1 ELSE 3
  /\ UNCHANGED <<rzMounted, rzPtyId, rzCalls, rzFinal, rzCoalesced>>

\* d ms pass without a notification and without the timeout coming due
RzAdvance(d) ==
  /\ rzArmed
  /\ d \in 1..rzTimer
  /\ rzTimer' = rzTimer - d
  /\ rzSince' = IF rzOpen /\ rzSince + d <= DebounceMs THEN rzSince + d ELSE rzSince
  /\ UNCHANGED <<rzMounted, rzPtyId, rzSize, rzArmed, rzCalls, rzOpen, rzBurstLen,
                 rzFinal, rzCoalesced>>

\* the timeout fires and runs the debounced function.  The burst is over when the
\* last notification is DebounceMs old; a burst that outlives the component is
\* abandoned.
RzFire ==
  /\ rzArmed /\ rzTimer = 0
  /\ rzArmed' = FALSE
  /\ rzCalls' = DebouncedResizeBody(rzCalls)
  /\ IF rzOpen /\ rzSince = DebounceMs
       THEN /\ rzOpen' = FALSE
            /\ rzBurstLen' = 0
            /\ rzFinal' = IF rzMounted THEN Append(rzFinal, rzSize) ELSE rzFinal
            /\ rzCoalesced' = IF rzMounted /\ rzBurstLen > rzCoalesced THEN rzBurstLen
                              ELSE rzCoalesced
       ELSE UNCHANGED <<rzOpen, rzBurstLen, rzFinal, rzCoalesced>>
  /\ UNCHANGED <<rzMounted, rzPtyId, rzSize, rzTimer, rzSince>>

\* the component unmounts: the terminal is disposed and the observer disconnected;
\* a pending timeout is not cleared
RzUnmount ==
  /\ rzMounted
  /\ rzMounted' = FALSE
  /\ UNCHANGED <<rzPtyId, rzSize, rzArmed, rzTimer, rzCalls, rzOpen, rzSince,
                 rzBurstLen, rzFinal, rzCoalesced>>

\* ------------------------------------------------------------------------
\* Terminal registry (terminalRegistry.ts)
\* ------------------------------------------------------------------------

NoOp == [op |-> "none", h |-> Null]

InitRegistry ==
  /\ activeTerminal = Null
  /\ selection = {}
  /\ regOp = NoOp
  /\ copyTarget = Null
  /\ pasteTarget = Null
  /\ copyResult = FALSE
  /\ lateUnregs = {}

\* an unregister that clears the slot whoever holds it
UnregisterUnguarded(active, fns) == IF fns = fns THEN Null ELSE active

\* unregisterActiveTerminal: the slot after the call
UnregisterSlot(active, fns) == IF active = fns THEN Null ELSE active

registerActiveTerminal(fns) ==
  /\ activeTerminal' = fns
  /\ regOp' = [op |-> "register", h |-> fns]
  /\ UNCHANGED <<selection, copyTarget, pasteTarget, copyResult, lateUnregs>>

unregisterActiveTerminal(fns) ==
  /\ activeTerminal' = UnregisterSlot(activeTerminal, fns)
  /\ regOp' = [op |-> "unregister", h |-> fns]
  /\ lateUnregs' = IF activeTerminal \notin {Null, fns} THEN lateUnregs \cup {fns}
                   ELSE lateUnregs
  /\ UNCHANGED <<selection, copyTarget, pasteTarget, copyResult>>

\* a terminal's copy(): true when it copied, that is when it had a selection
TerminalCopy(t, sel) == t \in sel

\* a copy that reports success whenever a terminal is registered
CopyReturnIgnoringCopy(active, sel) == active # Null

\* copyFromActiveTerminal's return value: false without a registered terminal,
\* else what the registered terminal's copy() returns
CopyReturn(active, sel) == IF active = Null THEN FALSE ELSE TerminalCopy(active, sel)

copyFromActiveTerminal ==
  /\ copyTarget' = activeTerminal
  /\ copyResult' = CopyReturn(activeTerminal, selection)
  /\ regOp' = [op |-> "copy", h |-> Null]
  /\ UNCHANGED <<activeTerminal, selection, pasteTarget, lateUnregs>>

\* pasteToActiveTerminal: paste(text) of the registered terminal, if any
pasteToActiveTerminal ==
  /\ pasteTarget' = activeTerminal
  /\ regOp' = [op |-> "paste", h |-> Null]
  /\ UNCHANGED <<activeTerminal, selection, copyTarget, copyResult, lateUnregs>>

\* the user selects text in a terminal, or clears the selection
ToggleSelection(t) ==
  /\ selection' = IF t \in selection THEN selection \ {t} ELSE selection \cup {t}
  /\ regOp' = NoOp
  /\ UNCHANGED <<activeTerminal, copyTarget, pasteTarget, copyResult, lateUnregs>>

\* ------------------------------------------------------------------------
\* MainPane: routing of thinking signals
\* ------------------------------------------------------------------------

NoSignal == [s |-> Null, t |-> Null, to |-> "none"]

FirstTab == [s \in Sessions |-> IF s = "s1" THEN "a1" ELSE IF s = "s2" THEN "b1" ELSE "c1"]

NoEvent == [sig |-> "none", s |-> Null, t |-> Null, to |-> "none", argS |-> Null, argT |-> Null]

InitMainPane ==
  /\ mpActiveSession = Null
  /\ mpActiveTab = FirstTab
  /\ mpLastActive = [s \in Sessions |-> Null]
  /\ mpNewApi \in BOOLEAN
  /\ mpSignal = NoSignal
  /\ mpProps = [onNotification |-> FALSE, onCwdChange |-> FALSE]
  /\ mpEvent = NoEvent

\* props handed to MainPane: the pointers of the active session
activeSessionTabId == IF mpActiveSession = Null THEN Null ELSE mpActiveTab[mpActiveSession]
lastActiveSessionTabId ==
  IF mpActiveSession = Null THEN Null ELSE mpLastActive[mpActiveSession]

isActiveTab(s, t) == s = mpActiveSession /\ t = activeSessionTabId

\* a routing that takes every tab for the last-active one
isLastActiveTabAny(s, t) == s = s /\ t = t

isLastActiveTab(s, t) ==
  IF lastActiveSessionTabId # Null THEN t = lastActiveSessionTabId ELSE isActiveTab(s, t)

\* where handleThinkingChange of tab t of session s sends a signal
ThinkingRoute(s, t) ==
  IF mpNewApi THEN "tab"
  ELSE IF isLastActiveTab(s, t) THEN "session" ELSE "dropped"

\* a terminal of an open session raises a thinking signal; terminals are rendered
\* only while a session is active
handleThinkingChange(s, t) ==
  /\ mpActiveSession # Null
  /\ t \in SessionTabs[s]
  /\ mpSignal' = [s |-> s, t |-> t, to |-> ThinkingRoute(s, t)]
  /\ mpEvent' = NoEvent
  /\ UNCHANGED <<mpActiveSession, mpActiveTab, mpLastActive, mpNewApi, mpProps>>

\* the handler of the session-level notification props for a session kind
LegacyNotificationHandler(s) ==
  IF SessionKind[s] = "worktree" THEN "onWorktreeNotification"
  ELSE IF SessionKind[s] = "project" THEN "onProjectNotification"
  ELSE "onScratchNotification"

\* a routing that forwards only the notifications of the last-active tab
NotificationRouteLastActiveOnly(s, t) ==
  IF ~isLastActiveTab(s, t) THEN "dropped"
  ELSE IF mpProps.onNotification THEN "onNotification"
  ELSE LegacyNotificationHandler(s)

\* the handler handleNotification of tab t of session s calls
NotificationRoute(s, t) ==
  IF mpProps.onNotification THEN "onNotification" ELSE LegacyNotificationHandler(s)

\* a terminal raises a notification: onNotification gets the session and the tab
\* id, a session-level handler the session id
handleNotification(s, t) ==
  /\ mpActiveSession # Null
  /\ t \in SessionTabs[s]
  /\ mpEvent' = [sig |-> "notification", s |-> s, t |-> t,
                 to |-> NotificationRoute(s, t), argS |-> s,
                 argT |-> IF NotificationRoute(s, t) = "onNotification" THEN t ELSE Null]
  /\ mpSignal' = NoSignal
  /\ UNCHANGED <<mpActiveSession, mpActiveTab, mpLastActive, mpNewApi, mpProps>>

\* a cwd handler attached to the terminals of every session
CwdAttachedAlways(s) == s = s

\* the terminals of session s are given an onCwdChange handler
CwdAttached(s) == SessionKind[s] = "scratch"

\* where a cwd change of a terminal of session s ends up
CwdRoute(s) ==
  IF ~CwdAttached(s) THEN "unattached"
  ELSE IF mpProps.onCwdChange THEN "onCwdChange" ELSE "onScratchCwdChange"

\* a terminal reports a new working directory to its onCwdChange prop, if it has one
handleCwdChange(s, t) ==
  /\ mpActiveSession # Null
  /\ t \in SessionTabs[s]
  /\ mpEvent' = [sig |-> "cwd", s |-> s, t |-> t, to |-> CwdRoute(s),
                 argS |-> IF CwdRoute(s) = "unattached" THEN Null ELSE s, argT |-> Null]
  /\ mpSignal' = NoSignal
  /\ UNCHANGED <<mpActiveSession, mpActiveTab, mpLastActive, mpNewApi, mpProps>>

\* the user switches to a session (or to no session)
MpSelectSession(s) ==
  /\ s # mpActiveSession
  /\ mpActiveSession' = s
  /\ mpSignal' = NoSignal
  /\ mpEvent' = NoEvent
  /\ UNCHANGED <<mpActiveTab, mpLastActive, mpNewApi, mpProps>>

\* the user selects a tab of the active session
MpSelectTab(t) ==
  /\ mpActiveSession # Null
  /\ t \in SessionTabs[mpActiveSession]
  /\ t # mpActiveTab[mpActiveSession]
  /\ mpActiveTab' = [mpActiveTab EXCEPT ![mpActiveSession] = t]
  /\ mpSignal' = NoSignal
  /\ mpEvent' = NoEvent
  /\ UNCHANGED <<mpActiveSession, mpLastActive, mpNewApi, mpProps>>

\* the last-active pointer of the active session is set to one of its tabs
MpSetLastActive(t) ==
  /\ mpActiveSession # Null
  /\ t \in SessionTabs[mpActiveSession]
  /\ t # mpLastActive[mpActiveSession]
  /\ mpLastActive' = [mpLastActive EXCEPT ![mpActiveSession] = t]
  /\ mpSignal' = NoSignal
  /\ mpEvent' = NoEvent
  /\ UNCHANGED <<mpActiveSession, mpActiveTab, mpNewApi, mpProps>>

\* the parent renders MainPane with or without the onNotification and onCwdChange
\* props
MpSetProps(p) ==
  /\ p # mpProps
  /\ mpProps' = p
  /\ mpSignal' = NoSignal
  /\ mpEvent' = NoEvent
  /\ UNCHANGED <<mpActiveSession, mpActiveTab, mpLastActive, mpNewApi>>

\* ------------------------------------------------------------------------
\* Session tabs (useSessionTabs): cyclic navigation
\* ------------------------------------------------------------------------

NoNav == [op |-> "none", s |-> Null, tabs |-> << >>, active |-> Null]

InitNav ==
  /\ sessionTabs = [s \in Entities |-> << >>]
  /\ sessionActiveTabIds = [s \in Entities |-> Null]
  /\ navOp = NoNav

\* position (1-based) of an id in a list of ids, 0 when absent
PositionOf(ids, id) ==
  IF \E i \in 1..Len(ids) : ids[i] = id
    THEN CHOOSE i \in 1..Len(ids) : ids[i] = id /\ \A j \in 1..(i-1) : ids[j] # id
    ELSE 0

getTabsForSession(s) == sessionTabs[s]
getActiveTabIdForSession(s) == sessionActiveTabIds[s]

\* addTab of useSessionTabs: the tab goes to the end and becomes active
SessionAddTab(s, t) ==
  /\ Len(sessionTabs[s]) < MaxTabs
  /\ \A i \in 1..Len(sessionTabs[s]) : sessionTabs[s][i] # t
  /\ sessionTabs' = [sessionTabs EXCEPT ![s] = Append(@, t)]
  /\ sessionActiveTabIds' = [sessionActiveTabIds EXCEPT ![s] = t]
  /\ navOp' = NoNav

\* setActiveTab of useSessionTabs, for a tab of the session
SessionSetActiveTab(s, t) ==
  /\ PositionOf(sessionTabs[s], t) > 0
  /\ sessionActiveTabIds[s] # t
  /\ sessionActiveTabIds' = [sessionActiveTabIds EXCEPT ![s] = t]
  /\ navOp' = NoNav
  /\ UNCHANGED sessionTabs

\* a navigation that stops at the ends of the list
NavTargetClamped(ids, active, step) ==
  IF Len(ids) < 2 \/ PositionOf(ids, active) = 0 THEN active
  ELSE IF PositionOf(ids, active) + step < 1 THEN ids[1]
  ELSE IF PositionOf(ids, active) + step > Len(ids) THEN ids[Len(ids)]
  ELSE ids[PositionOf(ids, active) + step]

\* the tab prevTab (step -1) and nextTab (step 1) make active: none other than the
\* active one with fewer than two tabs, else the neighbour, cyclically
NavTarget(ids, active, step) ==
  IF Len(ids) < 2 \/ PositionOf(ids, active) = 0 THEN active
  ELSE ids[((PositionOf(ids, active) - 1 + step + Len(ids)) % Len(ids)) + 1]

nextTab(s) ==
  /\ sessionActiveTabIds' =
       [sessionActiveTabIds EXCEPT ![s] = NavTarget(sessionTabs[s], @, 1)]
  /\ navOp' = [op |-> "nextTab", s |-> s, tabs |-> sessionTabs[s],
               active |-> sessionActiveTabIds[s]]
  /\ UNCHANGED sessionTabs

prevTab(s) ==
  /\ sessionActiveTabIds' =
       [sessionActiveTabIds EXCEPT ![s] = NavTarget(sessionTabs[s], @, -1)]
  /\ navOp' = [op |-> "prevTab", s |-> s, tabs |-> sessionTabs[s],
               active |-> sessionActiveTabIds[s]]
  /\ UNCHANGED sessionTabs

\* ------------------------------------------------------------------------
\* Scratch terminals (useScratchTerminals)
\* ------------------------------------------------------------------------

InitScratch ==
  /\ scratchTerminals = << >>
  /\ scratchTerminalCounter = 0
  /\ scratchCaptured = 0
  /\ scratchMinted = {}
  /\ scratchReused = {}

\* `scratch-${newCounter}`
ScratchId(n) == <<"scratch", n>>

\* const newCounter = scratchTerminalCounter + 1, on the value the callback closed over
ScratchNewCounter(captured) == captured + 1

\* addScratchTerminal: the new terminal is appended by an updater, the counter is
\* set to the value computed from the closure
addScratchTerminal ==
  LET newCounter == ScratchNewCounter(scratchCaptured)
  IN  /\ newCounter <= MaxScratchCounter
      /\ Len(scratchTerminals) < MaxScratch
      /\ scratchTerminals' = Append(scratchTerminals, ScratchId(newCounter))
      /\ scratchTerminalCounter' = newCounter
      /\ scratchMinted' = scratchMinted \cup {ScratchId(newCounter)}
      /\ scratchReused' = IF ScratchId(newCounter) \in scratchMinted
                            THEN scratchReused \cup {ScratchId(newCounter)}
                            ELSE scratchReused
      /\ UNCHANGED scratchCaptured

\* closeScratchTerminal: every terminal with that id leaves the list
closeScratchTerminal(scratchId) ==
  /\ scratchTerminals' = SelectSeq(scratchTerminals, LAMBDA x : x # scratchId)
  /\ UNCHANGED <<scratchTerminalCounter, scratchCaptured, scratchMinted, scratchReused>>

\* a render: addScratchTerminal is rebuilt over the current counter
ScratchRender ==
  /\ scratchCaptured # scratchTerminalCounter
  /\ scratchCaptured' = scratchTerminalCounter
  /\ UNCHANGED <<scratchTerminals, scratchTerminalCounter, scratchMinted, scratchReused>>

\* ------------------------------------------------------------------------
\* App: per-worktree drawer tabs
\* ------------------------------------------------------------------------

\* no tab id
NoTab == << >>

\* `${worktreeId}-drawer-${counter}`
DrawerTabId(w, n) == <<w, n>>

createDefaultDrawerState == [isOpen |-> FALSE, tabs |-> << >>, activeTabId |-> NoTab, tabCounter |-> 0]

\* prev.get(worktreeId) ?? createDefaultDrawerState()
DrawerStateOrDefault(m, w) == IF MapHas(m, w) THEN m[w] ELSE createDefaultDrawerState

InitApp ==
  /\ openWorktreeIds = {}
  /\ activeWorktreeId = Null
  /\ drawerStates = EmptyMap
  /\ minted = {}
  /\ reminted = {}

\* bookkeeping of a freshly built tab id
Mint(id) ==
  /\ minted' = minted \cup {id}
  /\ reminted' = IF id \in minted THEN reminted \cup {id} ELSE reminted

handleSelectWorktree(w) ==
  /\ openWorktreeIds' = openWorktreeIds \cup {w}
  /\ activeWorktreeId' = w
  /\ UNCHANGED <<drawerStates, minted, reminted>>

\* remaining[remaining.length - 1] of the open worktrees, in insertion order; the
\* order of a Set is not kept here, so any remaining worktree may be the one chosen
handleCloseWorktree(w) ==
  /\ w \in openWorktreeIds
  /\ openWorktreeIds' = openWorktreeIds \ {w}
  /\ drawerStates' = MapDelete(drawerStates, w)
  /\ IF activeWorktreeId = w
       THEN IF openWorktreeIds \ {w} = {} THEN activeWorktreeId' = Null
            ELSE activeWorktreeId' \in openWorktreeIds \ {w}
       ELSE UNCHANGED activeWorktreeId
  /\ UNCHANGED <<minted, reminted>>

\* Ctrl+`: toggle the drawer of the active worktree; opening it without tabs makes
\* the first tab
ToggleDrawer ==
  /\ activeWorktreeId # Null
  /\ LET current == DrawerStateOrDefault(drawerStates, activeWorktreeId)
         willOpen == ~current.isOpen
         newCounter == current.tabCounter + 1
         newTabId == DrawerTabId(activeWorktreeId, newCounter)
     IN  IF willOpen /\ Len(current.tabs) = 0
           THEN /\ newCounter <= MaxDrawerCounter
                /\ drawerStates' = MapSet(drawerStates, activeWorktreeId,
                                     [isOpen |-> TRUE, tabs |-> <<newTabId>>,
                                      activeTabId |-> newTabId, tabCounter |-> newCounter])
                /\ Mint(newTabId)
           ELSE /\ drawerStates' = MapSet(drawerStates, activeWorktreeId,
                                     [current EXCEPT !.isOpen = willOpen])
                /\ UNCHANGED <<minted, reminted>>
  /\ UNCHANGED <<openWorktreeIds, activeWorktreeId>>

\* the add-tab button, and Cmd+T while the drawer is open
handleAddDrawerTab ==
  /\ activeWorktreeId # Null
  /\ LET current == DrawerStateOrDefault(drawerStates, activeWorktreeId)
         newCounter == current.tabCounter + 1
         newTabId == DrawerTabId(activeWorktreeId, newCounter)
     IN  /\ newCounter <= MaxDrawerCounter
         /\ drawerStates' = MapSet(drawerStates, activeWorktreeId,
                              [current EXCEPT !.tabs = Append(current.tabs, newTabId),
                                              !.activeTabId = newTabId,
                                              !.tabCounter = newCounter])
         /\ Mint(newTabId)
  /\ UNCHANGED <<openWorktreeIds, activeWorktreeId>>

handleCloseDrawerTab(tabId) ==
  /\ activeWorktreeId # Null
  /\ MapHas(drawerStates, activeWorktreeId)
  /\ LET current == drawerStates[activeWorktreeId]
         remaining == SelectSeq(current.tabs, LAMBDA t : t # tabId)
     IN  drawerStates' = MapSet(drawerStates, activeWorktreeId,
           IF Len(remaining) = 0
             THEN [current EXCEPT !.isOpen = FALSE, !.tabs = << >>, !.activeTabId = NoTab]
             ELSE [current EXCEPT !.tabs = remaining,
                                  !.activeTabId = IF current.activeTabId = tabId
                                                    THEN remaining[Len(remaining)]
                                                    ELSE current.activeTabId])
  /\ UNCHANGED <<openWorktreeIds, activeWorktreeId, minted, reminted>>

handleSelectDrawerTab(tabId) ==
  /\ activeWorktreeId # Null
  /\ MapHas(drawerStates, activeWorktreeId)
  /\ drawerStates' = MapSet(drawerStates, activeWorktreeId,
                       [drawerStates[activeWorktreeId] EXCEPT !.activeTabId = tabId])
  /\ UNCHANGED <<openWorktreeIds, activeWorktreeId, minted, reminted>>

NoDelete == [id |-> Null, active |-> Null, open |-> {}]

InitDelete == pendingDelete = NoDelete

\* the new active id after worktree w went away, as a handler computes it from the
\* activeWorktreeId and openWorktreeIds of its closure: unchanged unless w was the
\* active one, else remaining[remaining.length - 1] or null (any remaining one here,
\* as in handleCloseWorktree)
ActiveAfterRemoval(capturedActive, capturedOpen, w) ==
  IF capturedActive # w THEN {activeWorktreeId}
  ELSE IF capturedOpen \ {w} = {} THEN {Null}
  ELSE capturedOpen \ {w}

\* the delete dialog is confirmed: confirmDeleteWorktree runs up to its await of
\* deleteWorktree(pendingDeleteId), holding the state of the render it was made in
confirmDeleteWorktree(w) ==
  /\ pendingDelete = NoDelete
  /\ pendingDelete' = [id |-> w, active |-> activeWorktreeId, open |-> openWorktreeIds]
  /\ UNCHANGED <<openWorktreeIds, activeWorktreeId, drawerStates, minted, reminted>>

\* deleteWorktree resolves: the rest of the try block and the finally block
DeleteResolved ==
  /\ pendingDelete # NoDelete
  /\ openWorktreeIds' = openWorktreeIds \ {pendingDelete.id}
  /\ drawerStates' = MapDelete(drawerStates, pendingDelete.id)
  /\ activeWorktreeId' \in
       ActiveAfterRemoval(pendingDelete.active, pendingDelete.open, pendingDelete.id)
  /\ pendingDelete' = NoDelete
  /\ UNCHANGED <<minted, reminted>>

\* deleteWorktree rejects: the catch block logs, the finally block closes the dialog
DeleteRejected ==
  /\ pendingDelete # NoDelete
  /\ pendingDelete' = NoDelete
  /\ UNCHANGED <<openWorktreeIds, activeWorktreeId, drawerStates, minted, reminted>>

\* the merge dialog reports its result; deletedWorktree tells whether the merge
\* removed the worktree
handleMergeComplete(w, deletedWorktree) ==
  /\ IF deletedWorktree
       THEN /\ openWorktreeIds' = openWorktreeIds \ {w}
            /\ activeWorktreeId' \in ActiveAfterRemoval(activeWorktreeId, openWorktreeIds, w)
       ELSE UNCHANGED <<openWorktreeIds, activeWorktreeId>>
  /\ UNCHANGED <<drawerStates, minted, reminted, pendingDelete>>

\* a Map without the keys in ids
MapDeleteAll(m, ids) == [k \in (DOMAIN m) \ ids |-> m[k]]

\* the remove-project dialog is confirmed: the project's worktrees are closed and
\* their drawer states dropped before removeProject is awaited
confirmRemoveProject(p) ==
  /\ openWorktreeIds' = openWorktreeIds \ ProjectWorktrees[p]
  /\ drawerStates' = MapDeleteAll(drawerStates, ProjectWorktrees[p])
  /\ activeWorktreeId' = IF activeWorktreeId # Null /\ activeWorktreeId \in ProjectWorktrees[p]
                           THEN Null ELSE activeWorktreeId
  /\ UNCHANGED <<minted, reminted, pendingDelete>>

\* the tabs the drawer of a worktree shows: the ones the user can select or close
ShownTabs(w) == {DrawerStateOrDefault(drawerStates, w).tabs[i] :
                   i \in 1..Len(DrawerStateOrDefault(drawerStates, w).tabs)}

\* ------------------------------------------------------------------------
\* useDrawerTabs: calls, logged
\* ------------------------------------------------------------------------

\* only the calls the properties below are about are told apart in the log; the
\* entity, the indices and the list before the call are kept for reorderTabs alone
Op(op, kind, e, a, b, fresh, base) ==
  [op |-> op, kind |-> kind, e |-> e, a |-> a, b |-> b, fresh |-> fresh, base |-> base]

Logged(op, kind) == Op(op, kind, Null, 0, 0, FALSE, << >>)

NoCall == Logged("none", "")

InitOps == lastOp = NoCall

AddTabCall(e, tab) ==
  /\ addTab(e, tab) /\ RenderAfter
  /\ lastOp' = Logged("addTab", "")

\* the case of a removeTab call: the tab is absent, the active one, or another one
RemoveTabCall(e, tabId) ==
  /\ removeTab(e, tabId) /\ RenderAfter
  /\ lastOp' = Logged("removeTab",
                      IF tabId \notin IdsOf(getTabsForEntity(e)) THEN "absent"
                      ELSE IF getActiveTabIdForEntity(e) = tabId THEN "active" ELSE "other")

SetActiveTabCall(e, tabId) ==
  /\ setActiveTab(e, tabId) /\ RenderAfter
  /\ lastOp' = Logged("setActiveTab", "")

\* a reorderTabs(j, i) that directly follows reorderTabs(i, j) on the same entity,
\* i # j, is logged as "back" and keeps the list the first of the two started from
ReorderTabsCall(e, oldIndex, newIndex) ==
  /\ reorderTabs(e, oldIndex, newIndex) /\ RenderAfter
  /\ LET back == /\ lastOp.op = "reorderTabs" /\ lastOp.kind = "move" /\ lastOp.e = e
                 /\ lastOp.a = newIndex /\ lastOp.b = oldIndex
     IN  lastOp' = IF oldIndex = newIndex THEN Logged("reorderTabs", "same")
                   ELSE Op("reorderTabs", IF back THEN "back" ELSE "move", e,
                           oldIndex, newIndex, FALSE,
                           IF back THEN lastOp.base ELSE drawerTabs[e])

\* in this log a counter is taken up to MaxLoggedCounter
IncrementCounterCall(e) ==
  /\ getCounterForEntity(e) < MaxLoggedCounter
  /\ incrementCounter(e) /\ RenderAfter
  /\ lastOp' = Logged("incrementCounter", "")

\* the case of an updateTabLabel call, and whether its updater returned a new Map
UpdateTabLabelCall(e, tabId, label) ==
  /\ updateTabLabel(e, tabId, label) /\ RenderAfter
  /\ lastOp' = Op("updateTabLabel",
                  IF ~MapHas(drawerTabs, e) THEN "noEntity"
                  ELSE IF tabId \notin IdsOf(drawerTabs[e]) THEN "noTab"
                  ELSE IF drawerTabs[e][IndexOf(drawerTabs[e], tabId)].label = label
                    THEN "same" ELSE "changed",
                  Null, 0, 0, UpdateTabLabelFresh(drawerTabs, e, tabId, label), << >>)

ClearEntityTabsCall(e) ==
  /\ clearEntityTabs(e) /\ RenderAfter
  /\ lastOp' = Logged("clearEntityTabs", "")

\* ------------------------------------------------------------------------
\* usePty: write, resize, kill and their failures
\* ------------------------------------------------------------------------

IoCommands == {"pty_write", "pty_resize"}

NoIo == [cmd |-> "none", known |-> FALSE, invoked |-> FALSE, rejected |-> FALSE,
         logged |-> FALSE, outcome |-> "none"]

InitIo ==
  /\ ioPending = [h \in Hooks |-> Null]
  /\ ioLast = [h \in Hooks |-> NoIo]

\* a catch block that throws the error on to the caller
IoCatchRethrow(cmd) == IF cmd = cmd THEN "thrown" ELSE "resolved"

\* the catch blocks of write, resize and kill: console.error, nothing thrown; the
\* promise the call returned resolves
IoCatch(cmd) == "resolved"

\* write(data) / resize(cols, rows): `if (!ptyId) return`, else await invoke(cmd)
IoCall(h, cmd) ==
  /\ ioPending[h] = Null
  /\ IF ptyId[h] = Null
       THEN /\ ioLast' = [ioLast EXCEPT ![h] =
                            [cmd |-> cmd, known |-> FALSE, invoked |-> FALSE,
                             rejected |-> FALSE, logged |-> FALSE, outcome |-> "resolved"]]
            /\ UNCHANGED ioPending
       ELSE /\ ioPending' = [ioPending EXCEPT ![h] = cmd]
            /\ UNCHANGED ioLast
  /\ UNCHANGED ptyVars

\* the backend answers the command
IoResolved(h) ==
  /\ ioPending[h] # Null
  /\ ioPending' = [ioPending EXCEPT ![h] = Null]
  /\ ioLast' = [ioLast EXCEPT ![h] =
                  [cmd |-> ioPending[h], known |-> TRUE, invoked |-> TRUE,
                   rejected |-> FALSE, logged |-> FALSE, outcome |-> "resolved"]]
  /\ UNCHANGED ptyVars

\* the backend rejects the command (the PTY is gone, the write fails): the catch
\* block runs
IoRejected(h) ==
  /\ ioPending[h] # Null
  /\ ioPending' = [ioPending EXCEPT ![h] = Null]
  /\ ioLast' = [ioLast EXCEPT ![h] =
                  [cmd |-> ioPending[h], known |-> TRUE, invoked |-> TRUE,
                   rejected |-> TRUE, logged |-> TRUE, outcome |-> IoCatch(ioPending[h])]]
  /\ UNCHANGED ptyVars

\* kill, with the way the call ended on record
IoKillResolved(h) ==
  /\ KillResolved(h)
  /\ ioLast' = [ioLast EXCEPT ![h] =
                  [cmd |-> "pty_kill", known |-> TRUE, invoked |-> TRUE,
                   rejected |-> FALSE, logged |-> FALSE, outcome |-> "resolved"]]
  /\ UNCHANGED ioPending

IoKillRejected(h) ==
  /\ KillRejected(h)
  /\ ioLast' = [ioLast EXCEPT ![h] =
                  [cmd |-> "pty_kill", known |-> TRUE, invoked |-> TRUE,
                   rejected |-> TRUE, logged |-> TRUE, outcome |-> IoCatch("pty_kill")]]
  /\ UNCHANGED ioPending

\* Each call below is made from its own event: React renders the owning component
\* before the next call, so the refs hold the state the call left.
AddTabStep ==
  \E e \in Entities, id \in TabIds : addTab(e, MkTab(id)) /\ RenderAfter /\ UNCHANGED <<ptyVars, rzVars, regVars, mpVars, appVars, opVars, ioVars, navVars, lifeVars, delVars, scVars>>
RemoveTabStep ==
  \E e \in Entities, id \in TabIds : removeTab(e, id) /\ RenderAfter /\ UNCHANGED <<ptyVars, rzVars, regVars, mpVars, appVars, opVars, ioVars, navVars, lifeVars, delVars, scVars>>
SetActiveTabStep ==
  \E e \in Entities, id \in TabIds : setActiveTab(e, id) /\ RenderAfter /\ UNCHANGED <<ptyVars, rzVars, regVars, mpVars, appVars, opVars, ioVars, navVars, lifeVars, delVars, scVars>>
ReorderTabsStep ==
  \E e \in Entities, i \in 1..MaxTabs, j \in 1..MaxTabs :
    reorderTabs(e, i, j) /\ RenderAfter /\ UNCHANGED <<ptyVars, rzVars, regVars, mpVars, appVars, opVars, ioVars, navVars, lifeVars, delVars, scVars>>
IncrementCounterStep ==
  \E e \in Entities : incrementCounter(e) /\ RenderAfter /\ UNCHANGED <<ptyVars, rzVars, regVars, mpVars, appVars, opVars, ioVars, navVars, lifeVars, delVars, scVars>>
ClearEntityTabsStep ==
  \E e \in Entities : clearEntityTabs(e) /\ RenderAfter /\ UNCHANGED <<ptyVars, rzVars, regVars, mpVars, appVars, opVars, ioVars, navVars, lifeVars, delVars, scVars>>

Init ==
  /\ InitStore /\ InitPty /\ InitResize /\ InitRegistry /\ InitMainPane /\ InitApp
  /\ InitOps /\ InitIo /\ InitNav /\ InitLife /\ InitDelete /\ InitScratch

Next ==
  \/ AddTabStep
  \/ RemoveTabStep
  \/ SetActiveTabStep
  \/ ReorderTabsStep
  \/ IncrementCounterStep
  \/ ClearEntityTabsStep

Spec == Init /\ [][Next]_vars

SpawnCallStep == \E h \in Hooks : SpawnCall(h) /\ UNCHANGED <<storeVars, rzVars, regVars, mpVars, appVars, opVars, ioVars, navVars, lifeVars, delVars, scVars>>
SpawnInvokeResolvedStep == \E h \in Hooks : SpawnInvokeResolved(h) /\ UNCHANGED <<storeVars, rzVars, regVars, mpVars, appVars, opVars, ioVars, navVars, lifeVars, delVars, scVars>>
SpawnInvokeRejectedStep == \E h \in Hooks : SpawnInvokeRejected(h) /\ UNCHANGED <<storeVars, rzVars, regVars, mpVars, appVars, opVars, ioVars, navVars, lifeVars, delVars, scVars>>
SpawnListenResolvedStep ==
  \E h \in Hooks, q \in PtyIds : SpawnListenResolved(h, q) /\ UNCHANGED <<storeVars, rzVars, regVars, mpVars, appVars, opVars, ioVars, navVars, lifeVars, delVars, scVars>>
KillCallStep == \E h \in Hooks : KillCall(h) /\ UNCHANGED <<storeVars, rzVars, regVars, mpVars, appVars, opVars, ioVars, navVars, lifeVars, delVars, scVars>>
KillResolvedStep == \E h \in Hooks : KillResolved(h) /\ UNCHANGED <<storeVars, rzVars, regVars, mpVars, appVars, opVars, ioVars, navVars, lifeVars, delVars, scVars>>
KillRejectedStep == \E h \in Hooks : KillRejected(h) /\ UNCHANGED <<storeVars, rzVars, regVars, mpVars, appVars, opVars, ioVars, navVars, lifeVars, delVars, scVars>>
EmitOutputStep == \E q \in PtyIds : EmitOutput(q) /\ UNCHANGED <<storeVars, rzVars, regVars, mpVars, appVars, opVars, ioVars, navVars, lifeVars, delVars, scVars>>
DispatchOutputStep == \E q \in PtyIds : DispatchOutput(q) /\ UNCHANGED <<storeVars, rzVars, regVars, mpVars, appVars, opVars, ioVars, navVars, lifeVars, delVars, scVars>>
ProcessExitStep == \E q \in PtyIds : ProcessExit(q) /\ UNCHANGED <<storeVars, rzVars, regVars, mpVars, appVars, opVars, ioVars, navVars, lifeVars, delVars, scVars>>

NextPty ==
  \/ SpawnCallStep
  \/ SpawnInvokeResolvedStep
  \/ SpawnInvokeRejectedStep
  \/ SpawnListenResolvedStep
  \/ KillCallStep
  \/ KillResolvedStep
  \/ KillRejectedStep
  \/ EmitOutputStep
  \/ DispatchOutputStep
  \/ ProcessExitStep

SpecPty == Init /\ [][NextPty]_vars

RzPtyReadyStep == RzPtyReady /\ UNCHANGED <<storeVars, ptyVars, regVars, mpVars, appVars, opVars, ioVars, navVars, lifeVars, delVars, scVars>>
RzUnobservedResizeStep ==
  \E s \in Sizes : RzUnobservedResize(s) /\ UNCHANGED <<storeVars, ptyVars, regVars, mpVars, appVars, opVars, ioVars, navVars, lifeVars, delVars, scVars>>
RzNotifyStep == \E s \in Sizes : RzNotify(s) /\ UNCHANGED <<storeVars, ptyVars, regVars, mpVars, appVars, opVars, ioVars, navVars, lifeVars, delVars, scVars>>
RzAdvanceStep ==
  \E d \in 1..DebounceMs : RzAdvance(d) /\ UNCHANGED <<storeVars, ptyVars, regVars, mpVars, appVars, opVars, ioVars, navVars, lifeVars, delVars, scVars>>
RzFireStep == RzFire /\ UNCHANGED <<storeVars, ptyVars, regVars, mpVars, appVars, opVars, ioVars, navVars, lifeVars, delVars, scVars>>
RzUnmountStep == RzUnmount /\ UNCHANGED <<storeVars, ptyVars, regVars, mpVars, appVars, opVars, ioVars, navVars, lifeVars, delVars, scVars>>

NextResize ==
  \/ RzPtyReadyStep
  \/ RzUnobservedResizeStep
  \/ RzNotifyStep
  \/ RzAdvanceStep
  \/ RzFireStep
  \/ RzUnmountStep

SpecResize == Init /\ [][NextResize]_vars

RegisterStep ==
  \E t \in Terms : registerActiveTerminal(t) /\ UNCHANGED <<storeVars, ptyVars, rzVars, mpVars, appVars, opVars, ioVars, navVars, lifeVars, delVars, scVars>>
UnregisterStep ==
  \E t \in Terms : unregisterActiveTerminal(t) /\ UNCHANGED <<storeVars, ptyVars, rzVars, mpVars, appVars, opVars, ioVars, navVars, lifeVars, delVars, scVars>>
CopyStep == copyFromActiveTerminal /\ UNCHANGED <<storeVars, ptyVars, rzVars, mpVars, appVars, opVars, ioVars, navVars, lifeVars, delVars, scVars>>
PasteStep == pasteToActiveTerminal /\ UNCHANGED <<storeVars, ptyVars, rzVars, mpVars, appVars, opVars, ioVars, navVars, lifeVars, delVars, scVars>>
ToggleSelectionStep ==
  \E t \in Terms : ToggleSelection(t) /\ UNCHANGED <<storeVars, ptyVars, rzVars, mpVars, appVars, opVars, ioVars, navVars, lifeVars, delVars, scVars>>

NextRegistry ==
  \/ RegisterStep
  \/ UnregisterStep
  \/ CopyStep
  \/ PasteStep
  \/ ToggleSelectionStep

SpecRegistry == Init /\ [][NextRegistry]_vars

ThinkingStep ==
  \E s \in Sessions : \E t \in SessionTabs[s] :
    handleThinkingChange(s, t) /\ UNCHANGED <<storeVars, ptyVars, rzVars, regVars, appVars, opVars, ioVars, navVars, lifeVars, delVars, scVars>>
NotificationStep ==
  \E s \in Sessions : \E t \in SessionTabs[s] :
    handleNotification(s, t) /\ UNCHANGED <<storeVars, ptyVars, rzVars, regVars, appVars, opVars, ioVars, navVars, lifeVars, delVars, scVars>>
CwdChangeStep ==
  \E s \in Sessions : \E t \in SessionTabs[s] :
    handleCwdChange(s, t) /\ UNCHANGED <<storeVars, ptyVars, rzVars, regVars, appVars, opVars, ioVars, navVars, lifeVars, delVars, scVars>>
MpSetPropsStep ==
  \E p \in [onNotification : BOOLEAN, onCwdChange : BOOLEAN] :
    MpSetProps(p) /\ UNCHANGED <<storeVars, ptyVars, rzVars, regVars, appVars, opVars, ioVars, navVars, lifeVars, delVars, scVars>>
MpSelectSessionStep ==
  \E s \in Sessions \cup {Null} :
    MpSelectSession(s) /\ UNCHANGED <<storeVars, ptyVars, rzVars, regVars, appVars, opVars, ioVars, navVars, lifeVars, delVars, scVars>>
MpSelectTabStep ==
  \E t \in UNION {SessionTabs[s] : s \in Sessions} :
    MpSelectTab(t) /\ UNCHANGED <<storeVars, ptyVars, rzVars, regVars, appVars, opVars, ioVars, navVars, lifeVars, delVars, scVars>>
MpSetLastActiveStep ==
  \E t \in UNION {SessionTabs[s] : s \in Sessions} :
    MpSetLastActive(t) /\ UNCHANGED <<storeVars, ptyVars, rzVars, regVars, appVars, opVars, ioVars, navVars, lifeVars, delVars, scVars>>

NextMainPane ==
  \/ NotificationStep
  \/ CwdChangeStep
  \/ MpSetPropsStep
  \/ ThinkingStep
  \/ MpSelectSessionStep
  \/ MpSelectTabStep
  \/ MpSetLastActiveStep

SpecMainPane == Init /\ [][NextMainPane]_vars

SelectWorktreeStep ==
  \E w \in Worktrees :
    handleSelectWorktree(w) /\ UNCHANGED <<storeVars, ptyVars, rzVars, regVars, mpVars, opVars, ioVars, navVars, lifeVars, delVars, scVars>>
CloseWorktreeStep ==
  \E w \in Worktrees :
    handleCloseWorktree(w) /\ UNCHANGED <<storeVars, ptyVars, rzVars, regVars, mpVars, opVars, ioVars, navVars, lifeVars, delVars, scVars>>
ToggleDrawerStep == ToggleDrawer /\ UNCHANGED <<storeVars, ptyVars, rzVars, regVars, mpVars, opVars, ioVars, navVars, lifeVars, delVars, scVars>>
AddDrawerTabStep ==
  handleAddDrawerTab /\ UNCHANGED <<storeVars, ptyVars, rzVars, regVars, mpVars, opVars, ioVars, navVars, lifeVars, delVars, scVars>>
CloseDrawerTabStep ==
  \E t \in ShownTabs(activeWorktreeId) :
    handleCloseDrawerTab(t) /\ UNCHANGED <<storeVars, ptyVars, rzVars, regVars, mpVars, opVars, ioVars, navVars, lifeVars, delVars, scVars>>
SelectDrawerTabStep ==
  \E t \in ShownTabs(activeWorktreeId) :
    handleSelectDrawerTab(t) /\ UNCHANGED <<storeVars, ptyVars, rzVars, regVars, mpVars, opVars, ioVars, navVars, lifeVars, delVars, scVars>>

NextApp ==
  \/ SelectWorktreeStep
  \/ CloseWorktreeStep
  \/ ToggleDrawerStep
  \/ AddDrawerTabStep
  \/ CloseDrawerTabStep
  \/ SelectDrawerTabStep

SpecApp == Init /\ [][NextApp]_vars

ConfirmDeleteWorktreeStep ==
  \E w \in Worktrees : confirmDeleteWorktree(w) /\ UNCHANGED <<storeVars, ptyVars, rzVars, regVars, mpVars, opVars, ioVars, navVars, lifeVars, scVars>>
DeleteResolvedStep == DeleteResolved /\ UNCHANGED <<storeVars, ptyVars, rzVars, regVars, mpVars, opVars, ioVars, navVars, lifeVars, scVars>>
DeleteRejectedStep == DeleteRejected /\ UNCHANGED <<storeVars, ptyVars, rzVars, regVars, mpVars, opVars, ioVars, navVars, lifeVars, scVars>>
MergeCompleteStep ==
  \E w \in Worktrees, d \in BOOLEAN : handleMergeComplete(w, d) /\ UNCHANGED <<storeVars, ptyVars, rzVars, regVars, mpVars, opVars, ioVars, navVars, lifeVars, scVars>>
ConfirmRemoveProjectStep ==
  \E p \in Projects : confirmRemoveProject(p) /\ UNCHANGED <<storeVars, ptyVars, rzVars, regVars, mpVars, opVars, ioVars, navVars, lifeVars, scVars>>

NextAppAsync ==
  \/ SelectWorktreeStep
  \/ CloseWorktreeStep
  \/ AddDrawerTabStep
  \/ ConfirmDeleteWorktreeStep
  \/ DeleteResolvedStep
  \/ DeleteRejectedStep
  \/ MergeCompleteStep
  \/ ConfirmRemoveProjectStep

SpecAppAsync == Init /\ [][NextAppAsync]_vars

AddScratchTerminalStep == addScratchTerminal /\ UNCHANGED <<storeVars, ptyVars, rzVars, regVars, mpVars, appVars, opVars, ioVars, navVars, lifeVars, delVars>>
CloseScratchTerminalStep ==
  \E i \in 1..Len(scratchTerminals) :
    closeScratchTerminal(scratchTerminals[i]) /\ UNCHANGED <<storeVars, ptyVars, rzVars, regVars, mpVars, appVars, opVars, ioVars, navVars, lifeVars, delVars>>
ScratchRenderStep == ScratchRender /\ UNCHANGED <<storeVars, ptyVars, rzVars, regVars, mpVars, appVars, opVars, ioVars, navVars, lifeVars, delVars>>

NextScratch ==
  \/ AddScratchTerminalStep
  \/ CloseScratchTerminalStep
  \/ ScratchRenderStep

SpecScratch == Init /\ [][NextScratch]_vars

TabsAddTabStep == \E e \in Entities, id \in TabIds : AddTabCall(e, MkTab(id)) /\ UNCHANGED <<ptyVars, rzVars, regVars, mpVars, appVars, ioVars, navVars, lifeVars, delVars, scVars>>
TabsRemoveTabStep == \E e \in Entities, id \in TabIds : RemoveTabCall(e, id) /\ UNCHANGED <<ptyVars, rzVars, regVars, mpVars, appVars, ioVars, navVars, lifeVars, delVars, scVars>>
TabsSetActiveTabStep == \E e \in Entities, id \in TabIds : SetActiveTabCall(e, id) /\ UNCHANGED <<ptyVars, rzVars, regVars, mpVars, appVars, ioVars, navVars, lifeVars, delVars, scVars>>
TabsReorderTabsStep ==
  \E e \in Entities, i \in 1..MaxTabs, j \in 1..MaxTabs : ReorderTabsCall(e, i, j) /\ UNCHANGED <<ptyVars, rzVars, regVars, mpVars, appVars, ioVars, navVars, lifeVars, delVars, scVars>>
TabsIncrementCounterStep == \E e \in Entities : IncrementCounterCall(e) /\ UNCHANGED <<ptyVars, rzVars, regVars, mpVars, appVars, ioVars, navVars, lifeVars, delVars, scVars>>
TabsUpdateTabLabelStep ==
  \E e \in Entities, id \in TabIds, l \in Labels : UpdateTabLabelCall(e, id, l) /\ UNCHANGED <<ptyVars, rzVars, regVars, mpVars, appVars, ioVars, navVars, lifeVars, delVars, scVars>>
TabsClearEntityTabsStep == \E e \in Entities : ClearEntityTabsCall(e) /\ UNCHANGED <<ptyVars, rzVars, regVars, mpVars, appVars, ioVars, navVars, lifeVars, delVars, scVars>>

\* the logged store under the calls that place tabs and move the active pointer
NextTabs ==
  \/ TabsAddTabStep
  \/ TabsRemoveTabStep
  \/ TabsSetActiveTabStep
  \/ TabsReorderTabsStep
  \/ TabsClearEntityTabsStep

SpecTabs == Init /\ [][NextTabs]_vars

\* the logged store under the calls that relabel, count and clear
NextLabels ==
  \/ TabsAddTabStep
  \/ TabsUpdateTabLabelStep
  \/ TabsIncrementCounterStep
  \/ TabsClearEntityTabsStep

SpecLabels == Init /\ [][NextLabels]_vars

IoCallStep == \E h \in Hooks, cmd \in IoCommands : IoCall(h, cmd) /\ UNCHANGED <<storeVars, rzVars, regVars, mpVars, appVars, opVars, navVars, lifeVars, delVars, scVars>>
IoResolvedStep == \E h \in Hooks : IoResolved(h) /\ UNCHANGED <<storeVars, rzVars, regVars, mpVars, appVars, opVars, navVars, lifeVars, delVars, scVars>>
IoRejectedStep == \E h \in Hooks : IoRejected(h) /\ UNCHANGED <<storeVars, rzVars, regVars, mpVars, appVars, opVars, navVars, lifeVars, delVars, scVars>>
IoKillResolvedStep == \E h \in Hooks : IoKillResolved(h) /\ UNCHANGED <<storeVars, rzVars, regVars, mpVars, appVars, opVars, navVars, lifeVars, delVars, scVars>>
IoKillRejectedStep == \E h \in Hooks : IoKillRejected(h) /\ UNCHANGED <<storeVars, rzVars, regVars, mpVars, appVars, opVars, navVars, lifeVars, delVars, scVars>>

\* usePty under spawn, write, resize and kill
NextPtyIo ==
  \/ SpawnCallStep
  \/ SpawnInvokeResolvedStep
  \/ SpawnInvokeRejectedStep
  \/ SpawnListenResolvedStep
  \/ KillCallStep
  \/ IoKillResolvedStep
  \/ IoKillRejectedStep
  \/ IoCallStep
  \/ IoResolvedStep
  \/ IoRejectedStep

SpecPtyIo == Init /\ [][NextPtyIo]_vars

\* a mounted component calls spawn or kill; the awaits are answered whether or
\* not the component is still mounted
LifeSpawnCallStep ==
  \E h \in Hooks : h \notin unmounted /\ SpawnCall(h) /\ UNCHANGED <<storeVars, rzVars, regVars, mpVars, appVars, opVars, ioVars, navVars, lifeVars, delVars, scVars>>
LifeKillCallStep ==
  \E h \in Hooks : h \notin unmounted /\ KillCall(h) /\ UNCHANGED <<storeVars, rzVars, regVars, mpVars, appVars, opVars, ioVars, navVars, lifeVars, delVars, scVars>>
UnmountStep ==
  \E h \in Hooks : Unmount(h) /\ UNCHANGED <<storeVars, rzVars, regVars, mpVars, appVars, opVars, ioVars, navVars, delVars, scVars>>

NextPtyLife ==
  \/ LifeSpawnCallStep
  \/ SpawnInvokeResolvedStep
  \/ SpawnInvokeRejectedStep
  \/ SpawnListenResolvedStep
  \/ LifeKillCallStep
  \/ KillResolvedStep
  \/ KillRejectedStep
  \/ UnmountStep

SpecPtyLife == Init /\ [][NextPtyLife]_vars

\* calls made back-to-back in one event handler: React queues the updaters and
\* renders once after the handler, so the refs stay as the last render left them
BatchAddTabStep ==
  \E e \in Entities, id \in TabIds :
    addTab(e, MkTab(id)) /\ NoRender
    /\ UNCHANGED <<ptyVars, rzVars, regVars, mpVars, appVars, opVars, ioVars, navVars, lifeVars, delVars, scVars>>
BatchRemoveTabStep ==
  \E e \in Entities, id \in TabIds :
    removeTab(e, id) /\ NoRender
    /\ UNCHANGED <<ptyVars, rzVars, regVars, mpVars, appVars, opVars, ioVars, navVars, lifeVars, delVars, scVars>>
BatchIncrementCounterStep ==
  \E e \in Entities :
    incrementCounter(e) /\ NoRender
    /\ UNCHANGED <<ptyVars, rzVars, regVars, mpVars, appVars, opVars, ioVars, navVars, lifeVars, delVars, scVars>>
RenderStep ==
  Render /\ UNCHANGED <<ptyVars, rzVars, regVars, mpVars, appVars, opVars, ioVars, navVars, lifeVars, delVars, scVars>>

NextBatchTabs ==
  \/ BatchAddTabStep
  \/ BatchRemoveTabStep
  \/ RenderStep

SpecBatchTabs == Init /\ [][NextBatchTabs]_vars

NextBatchCounter ==
  \/ BatchIncrementCounterStep
  \/ RenderStep

SpecBatchCounter == Init /\ [][NextBatchCounter]_vars

SessionAddTabStep ==
  \E s \in Entities : \E t \in TabIds :
    SessionAddTab(s, t)
    /\ UNCHANGED <<storeVars, ptyVars, rzVars, regVars, mpVars, appVars, opVars, ioVars, lifeVars, delVars, scVars>>
SessionSetActiveTabStep ==
  \E s \in Entities : \E t \in TabIds :
    SessionSetActiveTab(s, t)
    /\ UNCHANGED <<storeVars, ptyVars, rzVars, regVars, mpVars, appVars, opVars, ioVars, lifeVars, delVars, scVars>>
NextTabStep ==
  \E s \in Entities :
    nextTab(s) /\ UNCHANGED <<storeVars, ptyVars, rzVars, regVars, mpVars, appVars, opVars, ioVars, lifeVars, delVars, scVars>>
PrevTabStep ==
  \E s \in Entities :
    prevTab(s) /\ UNCHANGED <<storeVars, ptyVars, rzVars, regVars, mpVars, appVars, opVars, ioVars, lifeVars, delVars, scVars>>

NextNav ==
  \/ SessionAddTabStep
  \/ SessionSetActiveTabStep
  \/ NextTabStep
  \/ PrevTabStep

SpecNav == Init /\ [][NextNav]_vars

\* ------------------------------------------------------------------------
\* Tab store: properties
\* ------------------------------------------------------------------------

\* the tab the removal of the active tab at position i is said to activate:
\* its predecessor, its successor when it was first, none when it was alone
PrecedingTab(tabs, i) ==
  IF Len(tabs) = 1 THEN Null
  ELSE IF i > 1 THEN tabs[i - 1].id
  ELSE tabs[2].id

\* what the getters of every entity return is left as it was
GettersUnchanged ==
  \A x \in Entities :
    /\ getTabsForEntity(x)' = getTabsForEntity(x)
    /\ getActiveTabIdForEntity(x)' = getActiveTabIdForEntity(x)
    /\ getCounterForEntity(x)' = getCounterForEntity(x)

\* C1: removeTab of the entity's active tab activates, and returns, the tab that
\* immediately preceded it in display order (the following tab when it was the
\* first, null when it was the only one).
C1_RemoveActiveSelectsPreceding ==
  [][\A e \in Entities, t \in TabIds :
       (/\ getActiveTabIdForEntity(e) = t
        /\ t \in IdsOf(getTabsForEntity(e))
        /\ removeTab(e, t)
        /\ RenderAfter)
       => LET tabs == getTabsForEntity(e)
              expected == PrecedingTab(tabs, IndexOf(tabs, t))
          IN  /\ removeRet' = expected
              /\ getActiveTabIdForEntity(e)' = expected]_vars

\* C2: every entity's active tab id is null or the id of a tab in its list.
C2_ActiveIsMember ==
  \A e \in Entities :
    getActiveTabIdForEntity(e) # Null
      => getActiveTabIdForEntity(e) \in IdsOf(getTabsForEntity(e))

\* C3: the values successive incrementCounter calls return for an entity are
\* strictly increasing, whatever add, remove and clear calls come in between.
C3_CounterStrictlyIncreasing ==
  [][\A e \in Entities :
       (incrementCounter(e) /\ RenderAfter) => counterRet'[e] > counterRet[e]]_vars

\* C10: removeTab or setActiveTab with a tab id that is not in the entity's list
\* changes no entity's tabs, active tab id or counter, and removeTab returns null.
C10_AbsentIdIsNoOp ==
  [][\A e \in Entities, t \in TabIds :
       t \notin IdsOf(getTabsForEntity(e))
       => /\ (removeTab(e, t) /\ RenderAfter) => (GettersUnchanged /\ removeRet' = Null)
          /\ (setActiveTab(e, t) /\ RenderAfter) => GettersUnchanged]_vars

\* ------------------------------------------------------------------------
\* usePty: properties
\* ------------------------------------------------------------------------

\* C4: output reaches a terminal's subscriber, and an exit makes a terminal react,
\* only for a pty id that the terminal's own spawn returned.
C4_OnlyOwnPtyEvents ==
  \A h \in Hooks : delivered[h] \subseteq spawned[h] /\ exitSeen[h] \subseteq spawned[h]

\* two terminals live at once, each has received output, and an exit was handled
C4_Witness ==
  /\ delivered["h1"] # {}
  /\ delivered["h2"] # {}
  /\ delivered["h1"] # delivered["h2"]
  /\ \E h \in Hooks : exitSeen[h] # {}

\* C5: once kill has been called for a PTY, none of its output reaches the subscriber.
C5_NoOutputAfterKill == lateOutput = {}

C21_CopyReturnsSelectionOfRegistered ==
  regOp.op = "copy"
  => /\ copyTarget = activeTerminal
     /\ copyResult = (activeTerminal # Null /\ activeTerminal \in selection)
     /\ (copyResult => copyTarget \in Terms)

\* A was replaced by B and unregistered late while holding a selection; the copy
\* went to B, which has none, and returned false
C21_Witness ==
  /\ regOp.op = "copy"
  /\ "A" \in lateUnregs
  /\ "A" \in selection
  /\ copyTarget = "B"
  /\ "B" \notin selection
  /\ ~copyResult

\* ------------------------------------------------------------------------

\* C7: unregisterActiveTerminal(h) clears the slot exactly when h is the registered
\* terminal and otherwise leaves the registration alone (so a late unregister of a
\* replaced terminal keeps its successor registered), and copy and paste dispatch to
\* the registered terminal.
C7_UnregisterOnlyOwn ==
  [][/\ \A h \in Terms :
          unregisterActiveTerminal(h)
          => activeTerminal' = (IF activeTerminal = h THEN Null ELSE activeTerminal)
     /\ copyFromActiveTerminal => copyTarget' = activeTerminal
     /\ pasteToActiveTerminal => pasteTarget' = activeTerminal]_vars

\* A registered, B registered, A unregistered late; copy and paste then went to B
C7_Witness ==
  /\ "A" \in lateUnregs
  /\ activeTerminal = "B"
  /\ copyTarget = "B"
  /\ pasteTarget = "B"
  /\ regOp.op = "paste"

\* ------------------------------------------------------------------------
\* MainPane: properties
\* ------------------------------------------------------------------------

\* the last-active tab of a session: the recorded one, else its active tab
LastActiveOf(s) == IF mpLastActive[s] # Null THEN mpLastActive[s] ELSE mpActiveTab[s]

C23_CwdOnlyForScratch ==
  mpEvent.sig = "cwd"
  => IF SessionKind[mpEvent.s] = "scratch"
     THEN /\ mpEvent.to = (IF mpProps.onCwdChange THEN "onCwdChange" ELSE "onScratchCwdChange")
          /\ mpEvent.argS = mpEvent.s
     ELSE mpEvent.to = "unattached" /\ mpEvent.argS = Null

\* a cwd change of the project session's terminal went nowhere although the
\* consumer gave an onCwdChange handler
C23_Witness ==
  /\ mpEvent.sig = "cwd"
  /\ SessionKind[mpEvent.s] = "project"
  /\ mpProps.onCwdChange
  /\ mpEvent.to = "unattached"

\* ------------------------------------------------------------------------
\* App drawer tabs: properties
\* ------------------------------------------------------------------------

\* C11: every drawer tab id minted for a worktree differs from every id minted
\* earlier in the run, across add tab, close tab, toggle drawer, close worktree and
\* re-open worktree.
C11_MintedIdsFresh == reminted = {}

\* ------------------------------------------------------------------------
\* Tab store: properties of the single calls
\* ------------------------------------------------------------------------

\* C12: an entity whose tab list is empty has no active tab id.
C12_EmptyListNoActive ==
  \A e \in Entities :
    getTabsForEntity(e) = << >> => getActiveTabIdForEntity(e) = Null

\* C13: removeTab of a tab that is not the entity's active tab leaves the entity's
\* active tab id as it was, whatever the state of the store.
C13_RemoveNonActiveKeepsActive ==
  [][\A e \in Entities, t \in TabIds :
       (getActiveTabIdForEntity(e) # t /\ RemoveTabCall(e, t))
       => getActiveTabIdForEntity(e)' = getActiveTabIdForEntity(e)]_vars

\* t2 was removed from t1, t2, t3 while t1 was active: t1 is still active
C13_Witness ==
  /\ lastOp.op = "removeTab" /\ lastOp.kind = "other"
  /\ \E e \in Entities :
       /\ IdsOf(getTabsForEntity(e)) = {"t1", "t3"}
       /\ getActiveTabIdForEntity(e) = "t1"
       /\ removeRet = "t3"

\* C15: addTab appends the tab at the end of the entity's list, the earlier tabs
\* keeping their positions, and makes it the entity's active tab; the lists and
\* active ids of the other entities stay as they were.
C15_AddTabAppendsAndActivates ==
  [][\A e \in Entities, id \in TabIds :
       AddTabCall(e, MkTab(id))
       => /\ getTabsForEntity(e)' = Append(getTabsForEntity(e), MkTab(id))
          /\ getActiveTabIdForEntity(e)' = id
          /\ \A o \in Entities \ {e} :
               /\ getTabsForEntity(o)' = getTabsForEntity(o)
               /\ getActiveTabIdForEntity(o)' = getActiveTabIdForEntity(o)]_vars

\* a tab was added behind another one while the other entity has a tab of its own
C15_Witness ==
  /\ lastOp.op = "addTab"
  /\ \E e \in Entities, o \in Entities :
       /\ e # o
       /\ Len(getTabsForEntity(e)) = 2
       /\ getActiveTabIdForEntity(e) = getTabsForEntity(e)[2].id
       /\ Len(getTabsForEntity(o)) = 1
       /\ getActiveTabIdForEntity(o) = getTabsForEntity(o)[1].id

\* C16: reorderTabs with both indices in range puts the tab of oldIndex at newIndex
\* and keeps the other tabs in their relative order; the tabs are the same ones, and
\* with oldIndex = newIndex the list is unchanged.
C16_ReorderIsStableMove ==
  [][\A e \in Entities, i \in 1..MaxTabs, j \in 1..MaxTabs :
       ReorderTabsCall(e, i, j)
       => LET old == getTabsForEntity(e)
              new == getTabsForEntity(e)'
          IN  /\ Len(new) = Len(old)
              /\ new[j] = old[i]
              /\ FilterOut(new, old[i].id) = FilterOut(old, old[i].id)
              /\ i = j => new = old]_vars

\* the first of three tabs was moved to the end: the other two moved up, in order
C16_Witness ==
  /\ lastOp.op = "reorderTabs" /\ lastOp.kind = "move"
  /\ lastOp.a = 1 /\ lastOp.b = 3
  /\ Len(lastOp.base) = 3
  /\ getTabsForEntity(lastOp.e) = <<lastOp.base[2], lastOp.base[3], lastOp.base[1]>>

\* C17: reorderTabs(i, j) followed by reorderTabs(j, i), i # j, gives back the list
\* the first call started from.
C17_ReorderRoundTrip ==
  (lastOp.op = "reorderTabs" /\ lastOp.kind = "back")
    => getTabsForEntity(lastOp.e) = lastOp.base

\* reorderTabs(1, 3) then reorderTabs(3, 1) on three tabs
C17_Witness ==
  /\ lastOp.op = "reorderTabs" /\ lastOp.kind = "back"
  /\ lastOp.a = 3 /\ lastOp.b = 1
  /\ Len(getTabsForEntity(lastOp.e)) = 3

\* the calls of updateTabLabel that have nothing to change
LabelNoOpCase(e, tabId, label) ==
  \/ ~MapHas(drawerTabs, e)
  \/ tabId \notin IdsOf(drawerTabs[e])
  \/ drawerTabs[e][IndexOf(drawerTabs[e], tabId)].label = label

\* C18: updateTabLabel with the label the tab has, or for an unknown entity or tab,
\* leaves the store as it is: the updater returns the Map it was given (no new
\* state, no notification) and nothing else changes.
C18_SameLabelIsNoOp ==
  [][\A e \in Entities, t \in TabIds, l \in Labels :
       (LabelNoOpCase(e, t, l) /\ UpdateTabLabelCall(e, t, l))
       => /\ drawerTabs' = drawerTabs
          /\ ~lastOp'.fresh
          /\ drawerActiveTabIds' = drawerActiveTabIds
          /\ drawerTabCounters' = drawerTabCounters]_vars

\* a relabelled tab was given the label it has
C18_Witness ==
  /\ lastOp.op = "updateTabLabel" /\ lastOp.kind = "same" /\ ~lastOp.fresh
  /\ \E e \in Entities : \E i \in 1..Len(getTabsForEntity(e)) :
       getTabsForEntity(e)[i].label = "zsh"

\* C19: updateTabLabel with a different label changes the label of the targeted tab
\* and nothing else: the tab's other fields and position, the other tabs of the
\* entity, the active ids, the counters and the other entities stay as they were.
C19_RelabelChangesOnlyLabel ==
  [][\A e \in Entities, t \in TabIds, l \in Labels :
       (~LabelNoOpCase(e, t, l) /\ UpdateTabLabelCall(e, t, l))
       => LET old == getTabsForEntity(e)
              new == getTabsForEntity(e)'
              k == IndexOf(old, t)
          IN  /\ Len(new) = Len(old)
              /\ new[k] = [old[k] EXCEPT !.label = l]
              /\ \A i \in 1..Len(old) : i # k => new[i] = old[i]
              /\ \A o \in Entities \ {e} : getTabsForEntity(o)' = getTabsForEntity(o)
              /\ drawerActiveTabIds' = drawerActiveTabIds
              /\ drawerTabCounters' = drawerTabCounters]_vars

\* one of two tabs of an entity was relabelled; the other entity has a tab and a
\* counter
C19_Witness ==
  /\ lastOp.op = "updateTabLabel" /\ lastOp.kind = "changed" /\ lastOp.fresh
  /\ \E e \in Entities, o \in Entities :
       /\ e # o
       /\ Len(getTabsForEntity(e)) = 2
       /\ getTabsForEntity(e)[1].label = "zsh"
       /\ getTabsForEntity(e)[2].label = "Terminal"
       /\ getActiveTabIdForEntity(e) = getTabsForEntity(e)[2].id
       /\ Len(getTabsForEntity(o)) = 1
       /\ getCounterForEntity(o) = 1

\* C20: clearEntityTabs drops the entity's tabs and active id and leaves the tab
\* list, the active id and the counter of every other entity as they were.
C20_ClearLeavesOthers ==
  [][\A e \in Entities :
       ClearEntityTabsCall(e)
       => /\ getTabsForEntity(e)' = << >>
          /\ getActiveTabIdForEntity(e)' = Null
          /\ \A o \in Entities \ {e} :
               /\ getTabsForEntity(o)' = getTabsForEntity(o)
               /\ getActiveTabIdForEntity(o)' = getActiveTabIdForEntity(o)
               /\ getCounterForEntity(o)' = getCounterForEntity(o)
               /\ MapHas(drawerTabCounters, o)' = MapHas(drawerTabCounters, o)]_vars

\* an entity that had a counter was cleared; the other one has its tabs, active id
\* and counter
C20_Witness ==
  /\ lastOp.op = "clearEntityTabs"
  /\ \E e \in Entities, o \in Entities :
       /\ e # o
       /\ ~MapHas(drawerTabs, e) /\ ~MapHas(drawerTabCounters, e) /\ counterRet[e] = 1
       /\ Len(getTabsForEntity(o)) = 2
       /\ getActiveTabIdForEntity(o) = getTabsForEntity(o)[2].id
       /\ getCounterForEntity(o) = 1

\* ------------------------------------------------------------------------
\* usePty write, resize, kill: properties
\* ------------------------------------------------------------------------

\* C14: a write or resize made while the hook knows no ptyId invokes no backend
\* command, and a write, resize or kill the backend rejects is caught and logged:
\* the call returns normally (its promise resolves), nothing is thrown.
C14_IoFailuresSwallowed ==
  \A h \in Hooks :
    ioLast[h].cmd # "none"
    => /\ ioLast[h].known = ioLast[h].invoked
       /\ ioLast[h].outcome = "resolved"
       /\ ioLast[h].rejected => ioLast[h].logged

\* one hook wrote after its kill had cleared the ptyId: nothing was invoked; the
\* other hook's resize was rejected by the backend and the call returned normally
C14_Witness ==
  /\ spawned["h1"] # {} /\ ptyId["h1"] = Null
  /\ ioLast["h1"].cmd = "pty_write" /\ ~ioLast["h1"].invoked
  /\ ioLast["h2"].cmd = "pty_resize" /\ ioLast["h2"].rejected
  /\ ioLast["h2"].outcome = "resolved"

\* ------------------------------------------------------------------------
\* Session tabs: properties
\* ------------------------------------------------------------------------

\* C24: prevTab and nextTab leave the tab list as it is; with fewer than two tabs
\* the active tab stays, with two or more nextTab activates the tab after the
\* active one (the first after the last) and prevTab the tab before it (the last
\* before the first).
C24_NavigationCyclesAndWraps ==
  navOp.op \in {"nextTab", "prevTab"}
  => LET s == navOp.s
         ids == navOp.tabs
         n == Len(ids)
         i == PositionOf(ids, navOp.active)
     IN /\ sessionTabs[s] = ids
        /\ n < 2 => sessionActiveTabIds[s] = navOp.active
        /\ (n >= 2 /\ navOp.op = "nextTab")
             => sessionActiveTabIds[s] = (IF i = n THEN ids[1] ELSE ids[i + 1])
        /\ (n >= 2 /\ navOp.op = "prevTab")
             => sessionActiveTabIds[s] = (IF i = 1 THEN ids[n] ELSE ids[i - 1])

\* prevTab on the first of three tabs made the last one active
C24_Witness ==
  /\ navOp.op = "prevTab"
  /\ Len(navOp.tabs) = 3
  /\ navOp.active = navOp.tabs[1]
  /\ sessionActiveTabIds[navOp.s] = navOp.tabs[3]

\* ------------------------------------------------------------------------
\* Tab store, batched calls: properties
\* ------------------------------------------------------------------------

\* C25: the id removeTab returns agrees with the store after the removal, also
\* when earlier calls of the same batch have not been rendered yet: it names no
\* tab that is missing from the entity's list, and when the removed tab was the
\* active one it is the entity's new active tab id.
C25_RemoveReturnAgreesWithStore ==
  [][\A e \in Entities, t \in TabIds :
       (removeTab(e, t) /\ NoRender)
       => /\ removeRet' # Null => removeRet' \in IdsOf(TabsOrEmpty(drawerTabs', e))
          /\ (t \in IdsOf(getTabsForEntity(e)) /\ getActiveTabIdForEntity(e) = t)
               => removeRet' = (IF MapHas(drawerActiveTabIds', e)
                                  THEN drawerActiveTabIds'[e] ELSE Null)]_vars

\* C25 with a render after every call
C25_RenderedRemoveReturnAgrees ==
  [][\A e \in Entities, t \in TabIds :
       (removeTab(e, t) /\ RenderAfter)
       => /\ removeRet' # Null => removeRet' \in IdsOf(TabsOrEmpty(drawerTabs', e))
          /\ (t \in IdsOf(getTabsForEntity(e)) /\ getActiveTabIdForEntity(e) = t)
               => removeRet' = (IF MapHas(drawerActiveTabIds', e)
                                  THEN drawerActiveTabIds'[e] ELSE Null)]_vars

\* C26: the value incrementCounter returns is the counter the store holds after
\* the call, and it differs from the value the previous call for the entity
\* returned, also when that call has not been rendered yet.
C26_CounterReturnIsStoredAndFresh ==
  [][\A e \in Entities :
       (incrementCounter(e) /\ NoRender)
       => /\ counterRet'[e] = CounterOrZero(drawerTabCounters', e)
          /\ counterRet'[e] # counterRet[e]]_vars

\* C26 with a render after every call
C26_RenderedCounterReturnIsStored ==
  [][\A e \in Entities :
       (incrementCounter(e) /\ RenderAfter)
       => counterRet'[e] = CounterOrZero(drawerTabCounters', e)]_vars

\* ------------------------------------------------------------------------
\* usePty, listener lifetime: properties
\* ------------------------------------------------------------------------

\* C27: a hook instance has at most one live pty-output listener, a live listener
\* filters on the id of the hook's latest spawn, and an unmounted instance has no
\* live listener.
C27_OneListenerOnLatestPty ==
  \A h \in Hooks :
    /\ Cardinality(ListenersOf(h)) <= 1
    /\ \A pr \in ListenersOf(h) : pr[2] = LastSpawned(h)
    /\ h \in unmounted => ListenersOf(h) = {}

\* C27, first part alone: at most one live listener per hook instance
C27_AtMostOneListener == \A h \in Hooks : Cardinality(ListenersOf(h)) <= 1

\* C27, last part alone: no live listener after the unmount
C27_NoListenerAfterUnmount == \A h \in unmounted : ListenersOf(h) = {}

\* ------------------------------------------------------------------------
\* App, worktrees going away: properties
\* ------------------------------------------------------------------------

\* C28: activeWorktreeId is null or the id of an open worktree, whatever the
\* order of select, close, delete (confirmed, then answered by the backend), merge
\* and project removal.
C28_ActiveWorktreeIsOpen ==
  activeWorktreeId = Null \/ activeWorktreeId \in openWorktreeIds

\* C30: a step after which a worktree is no longer open leaves no drawer state
\* for that worktree.
C30_ClosedWorktreeHasNoDrawerState ==
  [][\A w \in Worktrees :
       (w \in openWorktreeIds /\ w \notin openWorktreeIds') => ~MapHas(drawerStates', w)]_vars

\* C30 for close, confirmed delete and project removal alone
C30_ExceptMergeNoDrawerState ==
  [][\A w \in Worktrees :
       (/\ w \in openWorktreeIds /\ w \notin openWorktreeIds'
        /\ ~(\E v \in Worktrees : handleMergeComplete(v, TRUE)))
       => ~MapHas(drawerStates', w)]_vars

\* ------------------------------------------------------------------------
\* Scratch terminals: properties
\* ------------------------------------------------------------------------

\* C29: the scratch terminals of the list have pairwise distinct ids, and no id
\* is given to a second terminal, whether the first is still listed or was closed.
C29_ScratchIdsDistinct ==
  /\ \A i, j \in 1..Len(scratchTerminals) :
        i # j => scratchTerminals[i] # scratchTerminals[j]
  /\ scratchReused = {}

\* C29 for an add made by the callback of the current render
C29_RenderedAddIsFresh ==
  [][(addScratchTerminal /\ scratchCaptured = scratchTerminalCounter /\ scratchReused = {})
       => scratchReused' = {}]_vars

====
